---------------------------- MODULE Spec2Model ----------------------------
(***************************************************************************)
(* Task Execution Core of pyside-base: TaskQueue, AbstractTask.run and its *)
(* control operations, and the active set of TaskTracker.                  *)
(*                                                                         *)
(* Threads.  The Queue, the Tracker and the Manager live on the Qt main    *)
(* thread: addTask, setMaxConcurrentTasks, _handleTaskCompletion,          *)
(* _retryTask and the Manager's cancelTask/pauseTask/resumeTask each run   *)
(* to completion there, one after the other.  AbstractTask.run executes    *)
(* on a pool thread: the step that begins it, setStatus(RUNNING), and the  *)
(* step that ends it, the final setStatus with the emission of             *)
(* taskFinished, interleave with the main thread's operations.             *)
(* taskFinished reaches _handleTaskCompletion as a queued event.           *)
(*                                                                         *)
(* Two specifications share the actions.  Spec runs NumTasks tasks of any  *)
(* uniqueType and maxRetries under every operation.  SpecQueue runs        *)
(* NumQueueTasks tasks, enough for two tasks to wait behind a running one; *)
(* it leaves out pause and resume, which touch only status and _isPaused   *)
(* of a task whose body is executing and nothing the Queue reads.          *)
(*                                                                         *)
(* The other components have a specification each, over the same           *)
(* variables.  SpecChain is the run of one TaskChain on its pool thread,   *)
(* which runs the children one after the other inside its own run(), with *)
(* cancel() calls from the main thread.  SpecLoad is the construction of   *)
(* the Manager over a persisted store.  SpecScheduler is the TaskScheduler *)
(* with 'date' jobs.  SpecHistory is the Tracker's failed and completed    *)
(* histories; the tasks of the other specifications are not persistent     *)
(* (the default), so their failures and completions log nothing.           *)
(* SpecManager is the Manager's cancelTask, pauseTask, resumeTask and      *)
(* getTaskInfo called with any uuid, tracked or not, each call recorded.   *)
(* SpecTracker is the Tracker's registration of plain tasks, of a chain    *)
(* and of its children with its tag index, under addTag and removeTag of   *)
(* the tasks and the bulk stop by tag; the other specifications leave the  *)
(* tags and the tag index out.                                             *)
(*                                                                         *)
(* Further specifications follow single components more closely.           *)
(* SpecContext is ChainContext.set/get over mutable objects of the client. *)
(* SpecStorage is JsonStorage.save and load with the write of the file as  *)
(* a step of its own, and a restart of the process between the steps.      *)
(* SpecRace splits the end of AbstractTask.run into the final setStatus    *)
(* and the finally block, and the Manager's pauseTask and resumeTask into  *)
(* their status test and their call, so that the main thread's steps fall  *)
(* between the pool thread's.  SpecProgress is SpecChain with three        *)
(* children and no silent failures.  SpecChainFair is SpecChain with the   *)
(* chain's thread scheduled fairly; SpecLive is the Queue with the pool    *)
(* threads and the event loop scheduled fairly.  SpecInterval is the       *)
(* Scheduler's 'interval' jobs, telling apart the task objects that the    *)
(* firings of one job construct under the job's uuid.                      *)
(***************************************************************************)
EXTENDS Integers, Sequences, FiniteSets, TLC

\* ------------------------------------------------------------------ bounds
NumTasks == 2
NumQueueTasks == 3
MaxRetriesBound == 1
MaxLimit == 2
\* cancelTask calls the callers make in one behaviour
MaxCancels == 2
\* children of the chain
NumChildren == 2
\* addScheduledTask calls in one behaviour
MaxSchedules == 3
\* tasks handed to the Scheduler
NumScheduledTasks == 2
\* records logged to the Tracker's histories in one behaviour
MaxArrivals == 4
\* addTag and removeTag calls
MaxTagEdits == 2
\* mutable objects (lists, dicts) the chain's client constructs
NumObjects == 2
\* children of the chain whose progress is followed
NumProgressChildren == 3
\* firings of interval timers
MaxFirings == 3

Tasks == 1..NumQueueTasks
Keys == {"A", "B"}

\* TaskStatus
PENDING == "PENDING"
RUNNING == "RUNNING"
COMPLETED == "COMPLETED"
FAILED == "FAILED"
CANCELLED == "CANCELLED"
PAUSED == "PAUSED"
RETRYING == "RETRYING"
TaskStatus == {PENDING, RUNNING, COMPLETED, FAILED, CANCELLED, PAUSED, RETRYING}

\* UniqueType
NONE == "NONE"
JOB == "JOB"
UNTIL_PROCESSING == "UNTIL_PROCESSING"
UniqueType == {NONE, JOB, UNTIL_PROCESSING}

\* the exception of taskFinished's error argument: none, PermanentTaskFailure,
\* or any other (TaskFailedException raised by fail() included)
NoException == "NoException"
PlainException == "Exception"
PermanentTaskFailure == "PermanentTaskFailure"
TaskFailedException == "TaskFailedException"
TaskNotFoundException == "TaskNotFoundException"

\* ChainRetryBehavior
STOP_CHAIN == "STOP_CHAIN"
SKIP_TASK == "SKIP_TASK"
RETRY_TASK == "RETRY_TASK"
RETRY_CHAIN == "RETRY_CHAIN"
ChainRetryBehavior == {STOP_CHAIN, SKIP_TASK, RETRY_TASK, RETRY_CHAIN}

\* the chain's children, in list order, are the tasks 1..NumChildren; the
\* class names of the children, the keys of retryBehaviorMap
Children == 1..NumChildren
ChildKinds == {"K1", "K2"}
\* the progress values of ChainProgressUpdateRequest events
ExternalProgress == {50}

\* class names, which every task carries as a tag, the tags a chain stamps
\* on its children, and the tags clients use
ConcreteTask == "ConcreteTask"
TaskChain == "TaskChain"
ChainedChild == "_ChainedChild"
UserTags == {"GroupA", "GroupB"}
\* 'Parent_' + chainUuid, for the chain with uuid 1
ParentTag == "Parent_1"
AllTags == UserTags \cup {ConcreteTask, TaskChain, ChainedChild, ParentTag}

\* ChainContext: the keys written, the mutable objects and their contents
ContextKeys == {"k1", "k2"}
Objects == 1..NumObjects
Contents == {"[]", "[1]"}

\* JsonStorage: the keys the task system persists under, the values, the
\* value load returns for a missing key, and a file that is no JSON document
StoreKeys == {"pendingTasks", "scheduledJobs"}
StoreValues == {"v1", "v2"}
DefaultValue == "None"
NoFile == [kind |-> "missing", document |-> <<>>]
Torn == [kind |-> "torn", document |-> <<>>]

VARIABLES
    \* AbstractTask fields, per task
    status, stopped, isPaused, maxRetries, currentRetryAttempts, uniqueType,
    \* position of the pool thread executing run() for the task
    pc,
    \* TaskQueue
    pendingTasks, runningTasks, activeUniqueKeys, maxConcurrentTasks,
    \* QTimer.singleShot retry timers that have not fired yet
    retryTimers,
    \* queued taskFinished deliveries to _handleTaskCompletion, oldest first:
    \* [uuid, exception], the exception being that of the error argument
    finishedEvents,
    \* TaskTracker._activeTasks
    activeTasks,
    \* tasks constructed and submitted so far are 1..nextTask-1
    nextTask,
    \* cancelTask calls made so far
    cancels,
    \* history, per task: runs of the body begun, status at the taskFinished
    \* of the current run, cancel() called in a non-terminal status, dispatched
    \* (and not yet started) ahead of tasks left waiting
    runs, finishedEmitted, cancelCalled, dispatchedAhead,
    \* history: the tasks the Queue's last operation dropped at the expiry of
    \* their retry delay
    retryDropped

VARIABLES
    \* AbstractTask field the Queue does not read, per task
    failSilently,
    \* TaskChain fields: the AbstractTask part of the chain ...
    chainStatus, chainStopped, chainProgress, chainMaxRetries, chainResult,
    \* ... and its own
    currentTaskIndex, chainRetryAttempts, retryBehaviorMap, taskStates,
    progressUpdatedExternally,
    \* ChainContext._data: the keys written, one per child
    contextData,
    \* position of the thread executing the chain's run(), with the locals
    \* attempts of _executeSubTaskWithRetry and isTaskSuccess of handle
    chainPc, attempts, isTaskSuccess,
    \* TaskChain.cancel() has cancelled the children and not yet set the
    \* chain's own stop flag
    chainCancelling,
    \* history: the children whose run has ended in the current pass over the
    \* list
    endedInPass

VARIABLES
    \* the store's 'pendingTasks' entry: the blobs saveState wrote, each with
    \* the uniqueType and maxRetries of its task
    storedPending,
    \* position of the main thread in TaskManagerService.__init__
    managerPc

VARIABLES
    \* TaskScheduler._jobs: task uuid (the jobId is 'task_' + uuid) -> the
    \* job's timer; the jobs are numbered by their timers, in creation order
    jobs,
    \* the timers started and neither fired nor stopped
    activeTimers,
    \* per timer, the task uuid its timeout slot was connected with
    timerTask,
    \* the store's 'scheduledJobs' entry: the uuids of the jobs saved
    storedJobs,
    \* history, per timer: the calls of TaskQueue.addTask its firing made
    submissions

VARIABLES
    \* TaskTracker._failedTaskHistory and _completedTaskHistory; a record is
    \* the number of its arrival in its list
    failedTaskHistory, completedTaskHistory,
    \* the store's 'failedTaskHistory' and 'completedTaskHistory' entries
    storedFailed, storedCompleted,
    \* history: the records ever appended to either list, those the store held
    \* at construction included, and the records logged in this behaviour
    failedLogged, completedLogged, arrivals

VARIABLES
    \* the last call of cancelTask, pauseTask, resumeTask or getTaskInfo made
    \* on the Manager: [op, uuid, raised], raised being the exception it left
    \* with
    call

VARIABLES
    \* AbstractTask.tags and the task's class name, per task; TaskChain._tasks,
    \* per task (empty for a task that is no chain)
    tags, className, taskList,
    \* TaskTracker._tagIndex: tag -> set of uuids
    tagIndex,
    \* TaskTracker._chainChildTasks: child uuid -> the chainUuid of its entry
    chainChildTasks,
    \* addTag and removeTag calls made so far
    tagEdits

VARIABLES
    \* ChainContext._data: key -> the object stored under it
    contextValues,
    \* the contents of the mutable objects
    heap,
    \* the objects the client holds a reference to: those it passed to set and
    \* those get returned
    held,
    \* history: per key, the contents its value had when set stored it
    valueAtSet

VARIABLES
    \* JsonStorage._data
    storeData,
    \* the storage file: NoFile, Torn, or the JSON document it holds
    storeFile,
    \* position of the thread executing save: "idle", or "writing" between
    \* open(path, 'w') and the end of json.dump
    storePc,
    \* history: the key and the file's document of the save in progress
    savingKey, fileBefore,
    \* history: the save the last crash interrupted, [key, before]
    interrupted

VARIABLES
    \* position of the main thread inside TaskManagerService.pauseTask or
    \* resumeTask, between the status test and task.pause() / task.resume():
    \* [op, uuid]
    mainPc

VARIABLES
    \* the uuids of the 'interval' jobs whose repeating timer is armed
    intervalJobs,
    \* the task objects the firings have rebuilt, in creation order: the uuid
    \* of each and the position of its run(), "new", "start" (handed to the
    \* pool), "handle", "finished" (taskFinished emitted) or "handled"
    objectUuid, objectPc,
    \* TaskQueue._pendingTasks as objects, TaskQueue._runningTasks and
    \* TaskTracker._activeTasks as dicts uuid -> object
    pendingObjects, runningDict, trackedDict,
    \* the objects whose taskFinished is connected to _handleTaskCompletion
    connected,
    \* queued taskFinished deliveries, oldest first: the emitting objects
    finishedQueue

taskVars == <<status, stopped, isPaused, maxRetries, currentRetryAttempts,
              uniqueType>>
chainVars == <<failSilently, chainStatus, chainStopped, chainProgress,
               chainMaxRetries, chainResult, currentTaskIndex, chainRetryAttempts,
               retryBehaviorMap, taskStates, progressUpdatedExternally, contextData,
               chainPc, attempts, isTaskSuccess, chainCancelling, endedInPass>>
queueVars == <<pendingTasks, runningTasks, activeUniqueKeys, maxConcurrentTasks,
               retryTimers, finishedEvents>>
histVars == <<runs, finishedEmitted, cancelCalled, dispatchedAhead, retryDropped>>
envVars == <<nextTask, cancels>>
\* the variables of the other components, which the Queue's operations and
\* run() of a plain task leave alone
loadVars == <<storedPending, managerPc>>
schedulerVars == <<jobs, activeTimers, timerTask, storedJobs, submissions>>
trackerHistoryVars == <<failedTaskHistory, completedTaskHistory, storedFailed,
                        storedCompleted, failedLogged, completedLogged, arrivals>>
managerVars == <<call>>
tagVars == <<tags, className, taskList, tagIndex, chainChildTasks, tagEdits>>
contextVars == <<contextValues, heap, held, valueAtSet>>
storageVars == <<storeData, storeFile, storePc, savingKey, fileBefore, interrupted>>
raceVars == <<mainPc>>
intervalVars == <<intervalJobs, objectUuid, objectPc, pendingObjects, runningDict,
                  trackedDict, connected, finishedQueue>>
libVars == <<contextVars, storageVars, raceVars, intervalVars>>
apiVars == <<managerVars, tagVars, libVars>>
serviceVars == <<loadVars, schedulerVars, trackerHistoryVars, apiVars>>
otherVars == <<chainVars, serviceVars>>
vars == <<taskVars, pc, queueVars, activeTasks, envVars, histVars, otherVars>>

\* ----------------------------------------------------------------- helpers
Range(s) == {s[i] : i \in DOMAIN s}

\* AbstractTask.uniqueVia: the class name by default; tasks 3, 6, ... are of
\* a second class
uniqueVia(t) == IF t % 3 = 0 THEN "B" ELSE "A"

NoStats == [pending |-> 0, running |-> 0]

\* dict.get(key, {'pending': 0, 'running': 0})
StatsGet(idx, key) == IF key \in DOMAIN idx THEN idx[key] ELSE NoStats

DictSet(idx, key, val) == [k \in DOMAIN idx \cup {key} |-> IF k = key THEN val ELSE idx[k]]

DictDel(idx, key) == [k \in DOMAIN idx \ {key} |-> idx[k]]

\* TaskQueue._cleanupUniqueKey
cleanupUniqueKey(idx, key) ==
    IF key \in DOMAIN idx /\ idx[key].pending <= 0 /\ idx[key].running <= 0
    THEN DictDel(idx, key)
    ELSE idx


\* ------------------------------------------------------------ TaskQueue core
\* the loop test of _processQueue on the running map
HasFreeSlot_OffByOne(running, limit) == Cardinality(running) <= limit

\* the loop test with one slot held back
HasFreeSlot_OneShort(running, limit) == Cardinality(running) < limit - 1

HasFreeSlot(running, limit) == Cardinality(running) < limit

\* deque.popleft(): the task taken and the deque left
popleft_FromRight(pending) ==
    [task |-> pending[Len(pending)], rest |-> SubSeq(pending, 1, Len(pending) - 1)]

popleft(pending) == [task |-> Head(pending), rest |-> Tail(pending)]

\* "Update Unique Index (Remove from Pending)"
IndexLeavePending(idx, ut, task) ==
    LET key == uniqueVia(task) IN
    IF ut[task] # NONE /\ key \in DOMAIN idx
    THEN DictSet(idx, key, [idx[key] EXCEPT !.pending = @ - 1])
    ELSE idx

\* "Update Unique Index (Add to Running)"
IndexEnterRunning(idx, ut, task) ==
    LET key == uniqueVia(task) IN
    IF ut[task] # NONE /\ key \in DOMAIN idx
    THEN DictSet(idx, key, [idx[key] EXCEPT !.running = @ + 1])
    ELSE idx

\* "Update Unique Index (Remove from Running)" followed by _cleanupUniqueKey
IndexLeaveRunning(idx, ut, task) ==
    LET key == uniqueVia(task) IN
    IF ut[task] # NONE
    THEN cleanupUniqueKey(IF key \in DOMAIN idx
                          THEN DictSet(idx, key, [idx[key] EXCEPT !.running = @ - 1])
                          ELSE idx, key)
    ELSE idx

\* TaskQueue._processQueue on q = [pending, running, idx, active, pc]; st and
\* ut are the tasks' status and uniqueType, which the loop only reads
RECURSIVE processQueue(_, _, _, _)
processQueue(q, st, ut, limit) ==
    IF HasFreeSlot(q.running, limit) /\ q.pending # <<>>
    THEN LET p == popleft(q.pending)
             task == p.task
             idx1 == IndexLeavePending(q.idx, ut, task)
         IN IF st[task] = CANCELLED
            THEN processQueue([q EXCEPT !.pending = p.rest,
                                        !.idx = IF ut[task] # NONE
                                                THEN cleanupUniqueKey(idx1, uniqueVia(task))
                                                ELSE idx1,
                                        !.active = @ \ {task}],
                              st, ut, limit)
            ELSE processQueue([q EXCEPT !.pending = p.rest,
                                        !.idx = IndexEnterRunning(idx1, ut, task),
                                        !.running = @ \cup {task},
                                        !.pc = [@ EXCEPT ![task] = "start"]],
                              st, ut, limit)
    ELSE q

\* the Queue's state handed to _processQueue
QueueState(pending, running, idx, active) ==
    [pending |-> pending, running |-> running, idx |-> idx, active |-> active, pc |-> pc]

\* A task the Tracker has dropped is referenced by nothing in the system any
\* more and no operation reads its fields again: the model lets them return
\* to their constructor values.
Forget(f, dead, init) == [t \in Tasks |-> IF t \in dead THEN init ELSE f[t]]

\* write back the Queue after _processQueue, and the task fields the handler
\* assigned (st, sp, cu, ut, mr)
Commit(q, st, sp, cu, ut, mr) ==
    LET dead == activeTasks \ q.active IN
    /\ pendingTasks' = q.pending
    /\ runningTasks' = q.running
    /\ activeUniqueKeys' = q.idx
    /\ activeTasks' = q.active
    /\ pc' = q.pc
    /\ status' = Forget(st, dead, PENDING)
    /\ stopped' = Forget(sp, dead, FALSE)
    /\ isPaused' = Forget(isPaused, dead, FALSE)
    /\ currentRetryAttempts' = Forget(cu, dead, 0)
    /\ uniqueType' = Forget(ut, dead, NONE)
    /\ maxRetries' = Forget(mr, dead, 0)
    /\ runs' = Forget(runs, dead, 0)
    /\ finishedEmitted' = Forget(finishedEmitted, dead, "none")
    /\ cancelCalled' = Forget(cancelCalled, dead, FALSE)
    /\ dispatchedAhead' = [t \in Tasks |->
                               IF t \in dead THEN FALSE
                               ELSE IF t \in q.running \ runningTasks THEN q.pending # <<>>
                               ELSE dispatchedAhead[t]]
    /\ retryDropped' = dead \cap retryTimers

\* ------------------------------------------------------------------- Init
\* no chain has been constructed
NoChain ==
    /\ failSilently = [t \in Tasks |-> FALSE]
    /\ chainStatus = PENDING
    /\ chainStopped = FALSE
    /\ chainProgress = 0
    /\ chainMaxRetries = 0
    /\ chainResult = {}
    /\ currentTaskIndex = 0
    /\ chainRetryAttempts = 0
    /\ retryBehaviorMap = <<>>
    /\ taskStates = <<>>
    /\ progressUpdatedExternally = FALSE
    /\ contextData = {}
    /\ chainPc = "none"
    /\ attempts = 0
    /\ isTaskSuccess = FALSE
    /\ chainCancelling = FALSE
    /\ endedInPass = {}

\* a Manager constructed over an empty store
NoStartup ==
    /\ storedPending = <<>>
    /\ managerPc = "ready"

\* a Scheduler with nothing scheduled
NoScheduler ==
    /\ jobs = <<>>
    /\ activeTimers = {}
    /\ timerTask = <<>>
    /\ storedJobs = {}
    /\ submissions = <<>>

\* a Tracker constructed over a store without history
NoHistory ==
    /\ failedTaskHistory = <<>>
    /\ completedTaskHistory = <<>>
    /\ storedFailed = <<>>
    /\ storedCompleted = <<>>
    /\ failedLogged = 0
    /\ completedLogged = 0
    /\ arrivals = 0

\* no call made on the Manager yet
NoCall == [op |-> "none", uuid |-> 0, raised |-> NoException]

NoManagerCall == call = NoCall

\* a ChainContext constructed without initialData, and objects the client
\* has constructed and not passed on
NoContext ==
    /\ contextValues = <<>>
    /\ heap = [o \in Objects |-> "[]"]
    /\ held = {}
    /\ valueAtSet = <<>>

\* no save has been interrupted
NoInterrupt == [key |-> "none", before |-> <<>>]

\* a JsonStorage constructed where no storage file exists
NoStorage ==
    /\ storeData = <<>>
    /\ storeFile = NoFile
    /\ storePc = "idle"
    /\ savingKey = "none"
    /\ fileBefore = <<>>
    /\ interrupted = NoInterrupt

\* the main thread is inside no Manager call
MainIdle == [op |-> "none", uuid |-> 0]

NoRace == mainPc = MainIdle

\* no interval job scheduled, no task rebuilt by a firing
NoInterval ==
    /\ intervalJobs = {}
    /\ objectUuid = <<>>
    /\ objectPc = <<>>
    /\ pendingObjects = <<>>
    /\ runningDict = <<>>
    /\ trackedDict = <<>>
    /\ connected = {}
    /\ finishedQueue = <<>>

\* plain tasks constructed without tags of their own, and an empty tag index
NoTags ==
    /\ className = [t \in Tasks |-> ConcreteTask]
    /\ tags = [t \in Tasks |-> {ConcreteTask}]
    /\ taskList = [t \in Tasks |-> <<>>]
    /\ tagIndex = <<>>
    /\ chainChildTasks = <<>>
    /\ tagEdits = 0

\* a Queue and a Tracker just constructed, no task submitted
IdleQueue ==
    /\ status = [t \in Tasks |-> PENDING]
    /\ stopped = [t \in Tasks |-> FALSE]
    /\ isPaused = [t \in Tasks |-> FALSE]
    /\ maxRetries = [t \in Tasks |-> 0]
    /\ currentRetryAttempts = [t \in Tasks |-> 0]
    /\ uniqueType = [t \in Tasks |-> NONE]
    /\ pc = [t \in Tasks |-> "idle"]
    /\ pendingTasks = <<>>
    /\ runningTasks = {}
    /\ activeUniqueKeys = <<>>
    /\ maxConcurrentTasks \in 1..MaxLimit
    /\ retryTimers = {}
    /\ finishedEvents = <<>>
    /\ activeTasks = {}
    /\ nextTask = 1
    /\ cancels = 0
    /\ runs = [t \in Tasks |-> 0]
    /\ finishedEmitted = [t \in Tasks |-> "none"]
    /\ cancelCalled = [t \in Tasks |-> FALSE]
    /\ dispatchedAhead = [t \in Tasks |-> FALSE]
    /\ retryDropped = {}

Init ==
    /\ NoChain
    /\ NoStartup
    /\ NoScheduler
    /\ NoHistory
    /\ NoManagerCall
    /\ NoInterval
    /\ NoRace
    /\ NoStorage
    /\ NoContext
    /\ NoTags
    /\ IdleQueue

\* ---------------------------------------------------- TaskQueue operations
\* the uniqueness test of addTask: TRUE when the task is ignored
UniqueViolation(idx, ut, task) ==
    LET stats == StatsGet(idx, uniqueVia(task)) IN
    \/ ut = JOB /\ (stats.pending > 0 \/ stats.running > 0)
    \/ ut = UNTIL_PROCESSING /\ stats.pending > 0

\* TaskQueue.addTask of a freshly constructed task, on the Queue's and the
\* tasks' variables
addTaskBody(t, ut, mr) ==
    /\ t = nextTask
    /\ nextTask' = t + 1
    /\ IF UniqueViolation(activeUniqueKeys, ut, t)
       THEN UNCHANGED <<taskVars, pc, pendingTasks, runningTasks, activeUniqueKeys,
                        activeTasks, histVars>>
       ELSE LET key == uniqueVia(t)
                idx1 == IF ut # NONE
                        THEN DictSet(activeUniqueKeys, key,
                                     [StatsGet(activeUniqueKeys, key) EXCEPT !.pending = @ + 1])
                        ELSE activeUniqueKeys
                ut1 == [uniqueType EXCEPT ![t] = ut]
                mr1 == [maxRetries EXCEPT ![t] = mr]
            IN Commit(processQueue(QueueState(Append(pendingTasks, t), runningTasks, idx1,
                                              activeTasks \cup {t}),
                                   status, ut1, maxConcurrentTasks),
                      status, stopped, currentRetryAttempts, ut1, mr1)
    /\ UNCHANGED <<maxConcurrentTasks, retryTimers, finishedEvents, cancels>>

\* TaskQueue.addTask called by a client of the running system
addTask(t, ut, mr) ==
    /\ addTaskBody(t, ut, mr)
    /\ UNCHANGED otherVars

\* TaskQueue.setMaxConcurrentTasks, on the Queue's and the tasks' variables
setMaxConcurrentTasksBody(count) ==
    /\ IF count <= 0
       THEN UNCHANGED <<maxConcurrentTasks, taskVars, pc, pendingTasks, runningTasks,
                        activeUniqueKeys, activeTasks, histVars>>
       ELSE /\ maxConcurrentTasks' = count
            /\ Commit(processQueue(QueueState(pendingTasks, runningTasks, activeUniqueKeys,
                                              activeTasks),
                                   status, uniqueType, count),
                      status, stopped, currentRetryAttempts, uniqueType, maxRetries)
    /\ UNCHANGED <<retryTimers, finishedEvents, envVars>>

\* TaskQueue.setMaxConcurrentTasks called on the running system
setMaxConcurrentTasks(count) ==
    /\ setMaxConcurrentTasksBody(count)
    /\ UNCHANGED otherVars

\* the retry test of _handleTaskCompletion
ShouldRetry_OneTooMany(t) ==
    /\ status[t] = FAILED
    /\ ~stopped[t]
    /\ currentRetryAttempts[t] <= maxRetries[t]

ShouldRetry(t) ==
    /\ status[t] = FAILED
    /\ ~stopped[t]
    /\ currentRetryAttempts[t] < maxRetries[t]

\* the Tracker's active set after _handleTaskCompletion of task uuid: the
\* task stays tracked while a retry is scheduled, else it is removed
TrackedAfterCompletion_AlwaysRemoved(active, uuid, retry) == active \ {uuid}

\* the active set left as it is at every completion
TrackedAfterCompletion_Kept(active, uuid, retry) == active

TrackedAfterCompletion(active, uuid, retry) ==
    IF retry THEN active ELSE active \ {uuid}

\* TaskQueue._handleTaskCompletion, run for the oldest queued taskFinished
handleTaskCompletion ==
    /\ finishedEvents # <<>>
    /\ LET uuid == Head(finishedEvents).uuid IN
       /\ finishedEvents' = Tail(finishedEvents)
       /\ IF uuid \notin runningTasks
          THEN UNCHANGED <<taskVars, pc, retryTimers, pendingTasks, runningTasks,
                           activeUniqueKeys, activeTasks, histVars>>
          ELSE LET idx1 == IndexLeaveRunning(activeUniqueKeys, uniqueType, uuid)
                   retry == ShouldRetry(uuid)
                   st1 == IF retry THEN [status EXCEPT ![uuid] = RETRYING] ELSE status
                   cu1 == IF retry THEN [currentRetryAttempts EXCEPT ![uuid] = @ + 1]
                          ELSE currentRetryAttempts
               IN /\ retryTimers' = IF retry THEN retryTimers \cup {uuid} ELSE retryTimers
                  /\ Commit(processQueue(
                                QueueState(pendingTasks, runningTasks \ {uuid}, idx1,
                                           TrackedAfterCompletion(activeTasks, uuid, retry)),
                                st1, uniqueType, maxConcurrentTasks),
                            st1, stopped, cu1, uniqueType, maxRetries)
    /\ UNCHANGED <<maxConcurrentTasks, envVars>>
    /\ UNCHANGED otherVars

\* the guard of _retryTask
RetryDropped_StatusOnly(t) == status[t] = CANCELLED

RetryDropped(t) == stopped[t] \/ status[t] = CANCELLED

\* TaskQueue._retryTask, run when the task's retry timer fires
retryTask(t) ==
    /\ t \in retryTimers
    /\ retryTimers' = retryTimers \ {t}
    /\ IF RetryDropped(t)
       THEN Commit(QueueState(pendingTasks, runningTasks, activeUniqueKeys,
                              activeTasks \ {t}),
                   status, stopped, currentRetryAttempts, uniqueType, maxRetries)
       ELSE LET st1 == [status EXCEPT ![t] = PENDING]
            IN Commit(processQueue(QueueState(Append(pendingTasks, t), runningTasks,
                                              activeUniqueKeys, activeTasks),
                                   st1, uniqueType, maxConcurrentTasks),
                      st1, [stopped EXCEPT ![t] = FALSE], currentRetryAttempts, uniqueType,
                      maxRetries)
    /\ UNCHANGED <<maxConcurrentTasks, finishedEvents, envVars>>
    /\ UNCHANGED otherVars

\* -------------------------------------------------------- AbstractTask.run
\* the finally block of run(): taskFinished(uuid, self, result, err) is
\* emitted and queued for the Queue's slot; the pool thread is done
EmitFinished(t, exc) ==
    /\ finishedEvents' = Append(finishedEvents, [uuid |-> t, exception |-> exc])
    /\ finishedEmitted' = [finishedEmitted EXCEPT ![t] = status'[t]]
    /\ pc' = [pc EXCEPT ![t] = "idle"]

\* run() begins on a pool thread: setStatus(RUNNING), then handle() is entered
runStart(t) ==
    /\ pc[t] = "start"
    /\ status' = [status EXCEPT ![t] = RUNNING]
    /\ pc' = [pc EXCEPT ![t] = "handle"]
    /\ runs' = [runs EXCEPT ![t] = @ + 1]
    /\ finishedEmitted' = [finishedEmitted EXCEPT ![t] = "none"]
    /\ dispatchedAhead' = [dispatchedAhead EXCEPT ![t] = FALSE]
    /\ UNCHANGED <<stopped, isPaused, maxRetries, currentRetryAttempts, uniqueType,
                   queueVars, activeTasks, envVars, cancelCalled, retryDropped>>
    /\ UNCHANGED otherVars

\* handle() raises exc, or calls fail() which sets FAILED and raises
\* TaskFailedException: the "except Exception" branch of run()
handleRaises(t, exc) ==
    /\ pc[t] = "handle"
    /\ status' = [status EXCEPT ![t] = FAILED]
    /\ EmitFinished(t, exc)
    /\ UNCHANGED <<stopped, isPaused, maxRetries, currentRetryAttempts, uniqueType,
                   pendingTasks, runningTasks, activeUniqueKeys, maxConcurrentTasks,
                   retryTimers, activeTasks, envVars,
                   runs, cancelCalled, dispatchedAhead, retryDropped>>
    /\ UNCHANGED otherVars

\* handle() has seen the stop flag and raises TaskCancellationException
handleRaisesCancellation(t) ==
    /\ pc[t] = "handle"
    /\ stopped[t]
    /\ status' = [status EXCEPT ![t] = CANCELLED]
    /\ EmitFinished(t, NoException)
    /\ UNCHANGED <<stopped, isPaused, maxRetries, currentRetryAttempts, uniqueType,
                   pendingTasks, runningTasks, activeUniqueKeys,
                   maxConcurrentTasks, retryTimers, activeTasks, envVars,
                   runs, cancelCalled, dispatchedAhead, retryDropped>>
    /\ UNCHANGED otherVars

\* handle() returns: "if isStopped(): setStatus(CANCELLED) / elif status ==
\* FAILED: pass / else: setStatus(COMPLETED)", then the finally block
handleReturns(t) ==
    /\ pc[t] = "handle"
    /\ status' = [status EXCEPT ![t] = IF stopped[t] THEN CANCELLED
                                       ELSE IF @ = FAILED THEN FAILED ELSE COMPLETED]
    /\ EmitFinished(t, NoException)
    /\ UNCHANGED <<stopped, isPaused, maxRetries, currentRetryAttempts, uniqueType,
                   pendingTasks, runningTasks, activeUniqueKeys,
                   maxConcurrentTasks, retryTimers, activeTasks, envVars,
                   runs, cancelCalled, dispatchedAhead, retryDropped>>
    /\ UNCHANGED otherVars

\* ------------------------------------------ cancel, pause, resume (Manager)
NonTerminal == {PENDING, RUNNING, PAUSED, RETRYING}

\* AbstractTask.cancel of a plain task, on the tasks' variables
cancelTaskBody(t) ==
    /\ cancels < MaxCancels
    /\ cancels' = cancels + 1
    /\ stopped' = [stopped EXCEPT ![t] = TRUE]
    /\ isPaused' = [isPaused EXCEPT ![t] = FALSE]
    /\ status' = IF status[t] \in {PENDING, PAUSED} THEN [status EXCEPT ![t] = CANCELLED]
                 ELSE status
    /\ cancelCalled' = [cancelCalled EXCEPT ![t] = @ \/ status[t] \in NonTerminal]
    /\ UNCHANGED <<maxRetries, currentRetryAttempts, uniqueType,
                   pc, queueVars, activeTasks, nextTask,
                   runs, finishedEmitted, dispatchedAhead, retryDropped>>

\* TaskManagerService.cancelTask -> AbstractTask.cancel, of a tracked task
cancelTask(t) ==
    /\ t \in activeTasks
    /\ cancelTaskBody(t)
    /\ UNCHANGED otherVars

\* the status tests of pauseTask and of resumeTask
PauseRejected_Never(t) == FALSE

PauseRejected(t) == status[t] # RUNNING

ResumeRejected(t) == status[t] # PAUSED

\* pauseTask past the lookup: the status test, then AbstractTask.pause
pauseTaskBody(t) ==
    /\ IF PauseRejected(t)
       THEN UNCHANGED <<isPaused, status>>
       ELSE /\ isPaused' = [isPaused EXCEPT ![t] = TRUE]
            /\ status' = [status EXCEPT ![t] = PAUSED]
    /\ UNCHANGED <<stopped, maxRetries, currentRetryAttempts, uniqueType,
                   pc, queueVars, activeTasks, envVars, histVars>>

\* TaskManagerService.pauseTask -> AbstractTask.pause, of a tracked task
pauseTask(t) ==
    /\ t \in activeTasks
    /\ pauseTaskBody(t)
    /\ UNCHANGED otherVars

\* resumeTask past the lookup: the status test, then AbstractTask.resume
resumeTaskBody(t) ==
    /\ IF ResumeRejected(t)
       THEN UNCHANGED <<isPaused, status>>
       ELSE /\ isPaused' = [isPaused EXCEPT ![t] = FALSE]
            /\ status' = [status EXCEPT ![t] = RUNNING]
    /\ UNCHANGED <<stopped, maxRetries, currentRetryAttempts, uniqueType,
                   pc, queueVars, activeTasks, envVars, histVars>>

\* TaskManagerService.resumeTask -> AbstractTask.resume, of a tracked task
resumeTask(t) ==
    /\ t \in activeTasks
    /\ resumeTaskBody(t)
    /\ UNCHANGED otherVars

\* ------------------------------------- the Manager's calls with any uuid
\* the lookup of the uuid in TaskTracker._activeTasks fails
NotFound_Never(uuid) == FALSE

NotFound(uuid) == uuid \notin activeTasks

\* the call leaves with TaskNotFoundException
RaiseNotFound(op, uuid) ==
    /\ call' = [op |-> op, uuid |-> uuid, raised |-> TaskNotFoundException]
    /\ UNCHANGED <<taskVars, pc, queueVars, activeTasks, envVars, histVars>>

Returned(op, uuid) == call' = [op |-> op, uuid |-> uuid, raised |-> NoException]

callFrame == <<chainVars, loadVars, schedulerVars, trackerHistoryVars, tagVars, libVars>>

\* TaskManagerService.cancelTask(uuid)
cancelTaskCall(uuid) ==
    /\ IF NotFound(uuid)
       THEN RaiseNotFound("cancelTask", uuid)
       ELSE cancelTaskBody(uuid) /\ Returned("cancelTask", uuid)
    /\ UNCHANGED callFrame

\* TaskManagerService.pauseTask(uuid)
pauseTaskCall(uuid) ==
    /\ IF NotFound(uuid)
       THEN RaiseNotFound("pauseTask", uuid)
       ELSE pauseTaskBody(uuid) /\ Returned("pauseTask", uuid)
    /\ UNCHANGED callFrame

\* TaskManagerService.resumeTask(uuid)
resumeTaskCall(uuid) ==
    /\ IF NotFound(uuid)
       THEN RaiseNotFound("resumeTask", uuid)
       ELSE resumeTaskBody(uuid) /\ Returned("resumeTask", uuid)
    /\ UNCHANGED callFrame

\* TaskManagerService.getTaskInfo(uuid) -> TaskTracker.getTaskInfo
getTaskInfo(uuid) ==
    /\ IF NotFound(uuid)
       THEN RaiseNotFound("getTaskInfo", uuid)
       ELSE /\ Returned("getTaskInfo", uuid)
            /\ UNCHANGED <<taskVars, pc, queueVars, activeTasks, envVars, histVars>>
    /\ UNCHANGED callFrame

\* ---------------------------------------------------------------- TaskChain
\* the children of the chain, self._tasks, by their uuids, and len(self._tasks)
ChainTasks == DOMAIN taskStates

totalTasks == Cardinality(ChainTasks)

\* type(task).__name__ of a child
childKind(k) == IF k % 2 = 0 THEN "K2" ELSE "K1"

\* retryBehaviorMap.get(taskClassName, ChainRetryBehavior.STOP_CHAIN)
BehaviorOf(k) ==
    IF childKind(k) \in DOMAIN retryBehaviorMap THEN retryBehaviorMap[childKind(k)]
    ELSE STOP_CHAIN

\* the list taken from its far end
CurrentChild_Reversed == totalTasks - currentTaskIndex

\* the child at _currentTaskIndex
CurrentChild == currentTaskIndex + 1

\* the index after a child that succeeded or is skipped
NextIndex(i) == i + 1

\* the end of the chain's run() once handle() has returned with the chain's
\* status st: "if isStopped(): CANCELLED / elif FAILED: pass / else COMPLETED"
ChainFinish(st) ==
    /\ chainStatus' = IF chainStopped THEN CANCELLED
                      ELSE IF st = FAILED THEN FAILED ELSE COMPLETED
    /\ chainPc' = "done"

\* the end of the chain's run() when handle() raised: fail() of the chain,
\* or an exception that escaped _executeSubTaskWithRetry
ChainRaises ==
    /\ chainStatus' = FAILED
    /\ chainPc' = "done"

\* TaskChain._updateDefaultProgress with setProgress
DefaultProgress(index) ==
    LET value == ((index + 1) * 100) \div totalTasks
    IN IF value < 0 THEN 0 ELSE IF value > 100 THEN 100 ELSE value

\* a chain of n children, constructed, registered with the Tracker and
\* handed to a pool thread
ChainConstructed(n) ==
    /\ NoStartup
    /\ NoScheduler
    /\ NoHistory
    /\ NoManagerCall
    /\ NoInterval
    /\ NoRace
    /\ NoStorage
    /\ NoContext
    /\ NoTags
    /\ status = [t \in Tasks |-> PENDING]
    /\ stopped = [t \in Tasks |-> FALSE]
    /\ isPaused = [t \in Tasks |-> FALSE]
    /\ maxRetries \in [Tasks -> 0..MaxRetriesBound]
    /\ \A t \in Tasks \ (1..n) : maxRetries[t] = 0
    /\ currentRetryAttempts = [t \in Tasks |-> 0]
    /\ uniqueType = [t \in Tasks |-> NONE]
    /\ pc = [t \in Tasks |-> "idle"]
    /\ pendingTasks = <<>>
    /\ runningTasks = {}
    /\ activeUniqueKeys = <<>>
    /\ maxConcurrentTasks = 1
    /\ retryTimers = {}
    /\ finishedEvents = <<>>
    /\ activeTasks = 1..n
    /\ nextTask = n + 1
    /\ cancels = 0
    /\ runs = [t \in Tasks |-> 0]
    /\ finishedEmitted = [t \in Tasks |-> "none"]
    /\ cancelCalled = [t \in Tasks |-> FALSE]
    /\ dispatchedAhead = [t \in Tasks |-> FALSE]
    /\ retryDropped = {}
    /\ failSilently \in [Tasks -> BOOLEAN]
    /\ \A t \in Tasks \ (1..n) : ~failSilently[t]
    /\ chainStatus = PENDING
    /\ chainStopped = FALSE
    /\ chainProgress = 0
    /\ chainMaxRetries \in 0..MaxRetriesBound
    /\ chainResult = {}
    /\ currentTaskIndex = 0
    /\ chainRetryAttempts = 0
    /\ retryBehaviorMap \in [ChildKinds -> ChainRetryBehavior] \cup {<<>>}
    /\ taskStates = [k \in 1..n |-> PENDING]
    /\ progressUpdatedExternally = FALSE
    /\ contextData = {}
    /\ chainPc = "start"
    /\ attempts = 0
    /\ isTaskSuccess = FALSE
    /\ chainCancelling = FALSE
    /\ endedInPass = {}

\* a chain of NumChildren children
InitChain == ChainConstructed(NumChildren)

\* a chain of NumProgressChildren children none of which fails silently
InitProgress ==
    /\ ChainConstructed(NumProgressChildren)
    /\ \A t \in Tasks : ~failSilently[t]

\* what the chain's actions leave alone
chainFrame == <<isPaused, maxRetries, currentRetryAttempts, uniqueType, pc, queueVars,
                activeTasks, nextTask, finishedEmitted, dispatchedAhead, retryDropped,
                failSilently, chainMaxRetries, retryBehaviorMap, serviceVars>>

\* run() of the chain begins on a pool thread: setStatus(RUNNING)
chainRunStart ==
    /\ chainPc = "start"
    /\ chainStatus' = RUNNING
    /\ chainPc' = "loop"
    /\ UNCHANGED <<chainFrame, status, stopped, runs, cancels, cancelCalled,
                   chainStopped, chainProgress, chainResult, currentTaskIndex,
                   chainRetryAttempts, taskStates, progressUpdatedExternally, contextData,
                   attempts, isTaskSuccess, chainCancelling, endedInPass>>

\* the loop test of handle(): the list is done and handle() returns, or the
\* stop flag is seen, or the next child is taken
chainLoop ==
    /\ chainPc = "loop"
    /\ IF currentTaskIndex < totalTasks
       THEN IF chainStopped
            THEN /\ ChainFinish(CANCELLED)
                 /\ UNCHANGED <<chainResult, progressUpdatedExternally, attempts>>
            ELSE /\ progressUpdatedExternally' = FALSE
                 /\ attempts' = 0
                 /\ chainPc' = "attempt"
                 /\ UNCHANGED <<chainStatus, chainResult>>
       ELSE /\ chainResult' = contextData
            /\ ChainFinish(chainStatus)
            /\ UNCHANGED <<progressUpdatedExternally, attempts>>
    /\ UNCHANGED <<chainFrame, status, stopped, runs, cancels, cancelCalled,
                   chainStopped, chainProgress, currentTaskIndex, chainRetryAttempts,
                   taskStates, contextData, isTaskSuccess, chainCancelling, endedInPass>>

\* "task.setStatus(PENDING); task.run()" up to the child's setStatus(RUNNING)
StartChild(k) ==
    /\ status' = [status EXCEPT ![k] = RUNNING]
    /\ runs' = [runs EXCEPT ![k] = @ + 1]
    /\ chainPc' = "body"

\* _executeSubTaskWithRetry gives up: return False
ReturnFalse ==
    /\ isTaskSuccess' = FALSE
    /\ chainPc' = "after"

\* the loop test one attempt too generous
AttemptsLeft_OneMore(k) == attempts < maxRetries[k] + 2

\* "while attempts < maxAttempts", maxAttempts being task.maxRetries + 1
AttemptsLeft(k) == attempts < maxRetries[k] + 1

\* the loop test of _executeSubTaskWithRetry and what follows up to the
\* retry delay or the start of the child
chainAttempt ==
    /\ chainPc = "attempt"
    /\ IF ~AttemptsLeft(CurrentChild) \/ chainStopped
       THEN ReturnFalse /\ UNCHANGED <<chainStatus, status, runs>>
       ELSE IF attempts > 0
            THEN /\ chainStatus' = RETRYING
                 /\ chainPc' = "sleep"
                 /\ UNCHANGED <<isTaskSuccess, status, runs>>
            ELSE StartChild(CurrentChild) /\ UNCHANGED <<chainStatus, isTaskSuccess>>
    /\ UNCHANGED <<chainFrame, stopped, cancels, cancelCalled,
                   chainStopped, chainProgress, chainResult, currentTaskIndex,
                   chainRetryAttempts, taskStates, progressUpdatedExternally, contextData,
                   attempts, chainCancelling, endedInPass>>

\* the retry delay is over: setStatus(RUNNING), the second stop test, the
\* start of the child
chainSleepEnds ==
    /\ chainPc = "sleep"
    /\ chainStatus' = RUNNING
    /\ IF chainStopped
       THEN ReturnFalse /\ UNCHANGED <<status, runs>>
       ELSE StartChild(CurrentChild) /\ UNCHANGED isTaskSuccess
    /\ UNCHANGED <<chainFrame, stopped, cancels, cancelCalled,
                   chainStopped, chainProgress, chainResult, currentTaskIndex,
                   chainRetryAttempts, taskStates, progressUpdatedExternally, contextData,
                   attempts, chainCancelling, endedInPass>>

\* one more attempt is due: "attempts += 1" and the _taskStates entry
AttemptFailed(k) ==
    /\ attempts' = attempts + 1
    /\ taskStates' = [taskStates EXCEPT ![k] = FAILED]
    /\ chainPc' = "attempt"

\* the child's handle() returns without having failed, having written its
\* key to the context as its last act unless it saw its stop flag; the
\* child's run() ends Completed, or Cancelled if its stop flag is set
childReturns ==
    /\ chainPc = "body"
    /\ LET k == CurrentChild IN
       /\ status' = [status EXCEPT ![k] = IF stopped[k] THEN CANCELLED ELSE COMPLETED]
       /\ contextData' = IF stopped[k] THEN contextData ELSE contextData \cup {k}
       /\ taskStates' = IF stopped[k] THEN taskStates
                        ELSE [taskStates EXCEPT ![k] = COMPLETED]
       /\ isTaskSuccess' = ~stopped[k]
       /\ chainPc' = "after"
       /\ endedInPass' = endedInPass \cup {k}
    /\ UNCHANGED <<chainFrame, stopped, runs, cancels, cancelCalled, chainStatus,
                   chainStopped, chainProgress, chainResult, currentTaskIndex,
                   chainRetryAttempts, progressUpdatedExternally, attempts,
                   chainCancelling>>

\* the child's handle() calls fail() (TaskFailedException) or raises another
\* exception: the child's run() ends Failed and, unless the child fails
\* silently, raises to _executeSubTaskWithRetry, whose task.fail(str(e)) for
\* an exception other than TaskFailedException raises out of the chain
childFails(exc) ==
    /\ chainPc = "body"
    /\ LET k == CurrentChild IN
       /\ status' = [status EXCEPT ![k] = FAILED]
       /\ endedInPass' = endedInPass \cup {k}
       /\ IF failSilently[k]
          THEN IF chainStopped
               THEN ReturnFalse /\ UNCHANGED <<attempts, taskStates, chainStatus>>
               ELSE AttemptFailed(k) /\ UNCHANGED <<isTaskSuccess, chainStatus>>
          ELSE IF exc = TaskFailedException
               THEN AttemptFailed(k) /\ UNCHANGED <<isTaskSuccess, chainStatus>>
               ELSE ChainRaises /\ UNCHANGED <<attempts, taskStates, isTaskSuccess>>
    /\ UNCHANGED <<chainFrame, stopped, runs, cancels, cancelCalled,
                   chainStopped, chainProgress, chainResult, currentTaskIndex,
                   chainRetryAttempts, progressUpdatedExternally, contextData,
                   chainCancelling>>

\* the child's handle() has seen the child's stop flag and raises
\* TaskCancellationException: the child's run() ends Cancelled
childRaisesCancellation ==
    /\ chainPc = "body"
    /\ stopped[CurrentChild]
    /\ status' = [status EXCEPT ![CurrentChild] = CANCELLED]
    /\ endedInPass' = endedInPass \cup {CurrentChild}
    /\ ReturnFalse
    /\ UNCHANGED <<chainFrame, stopped, runs, cancels, cancelCalled, chainStatus,
                   chainStopped, chainProgress, chainResult, currentTaskIndex,
                   chainRetryAttempts, taskStates, progressUpdatedExternally, contextData,
                   attempts, chainCancelling>>

\* "if not self._progress_updated_externally: self._updateDefaultProgress()"
\* and "self._currentTaskIndex += 1"
Advance ==
    /\ chainProgress' = IF progressUpdatedExternally THEN chainProgress
                        ELSE DefaultProgress(currentTaskIndex)
    /\ currentTaskIndex' = NextIndex(currentTaskIndex)
    /\ chainPc' = "loop"

\* handle() after _executeSubTaskWithRetry returned: the cancellation test,
\* the chain-level behaviour for a failed child, the progress and the index
chainAfter ==
    /\ chainPc = "after"
    /\ LET k == CurrentChild IN
       IF chainStopped \/ status[k] = CANCELLED
       THEN /\ ChainFinish(IF chainStatus # FAILED THEN CANCELLED ELSE FAILED)
            /\ UNCHANGED <<chainProgress, currentTaskIndex, chainRetryAttempts, taskStates,
                           endedInPass>>
       ELSE IF isTaskSuccess \/ BehaviorOf(k) = RETRY_TASK
       THEN /\ Advance
            /\ UNCHANGED <<chainStatus, chainRetryAttempts, taskStates, endedInPass>>
       ELSE IF BehaviorOf(k) = SKIP_TASK
       THEN /\ currentTaskIndex' = NextIndex(currentTaskIndex)
            /\ chainPc' = "loop"
            /\ UNCHANGED <<chainStatus, chainProgress, chainRetryAttempts, taskStates,
                           endedInPass>>
       ELSE IF BehaviorOf(k) = RETRY_CHAIN /\ chainRetryAttempts < chainMaxRetries
       THEN /\ chainRetryAttempts' = chainRetryAttempts + 1
            /\ currentTaskIndex' = 0
            /\ taskStates' = [c \in ChainTasks |-> PENDING]
            /\ endedInPass' = {}
            /\ chainPc' = "loop"
            /\ UNCHANGED <<chainStatus, chainProgress>>
       ELSE /\ ChainRaises
            /\ UNCHANGED <<chainProgress, currentTaskIndex, chainRetryAttempts, taskStates,
                           endedInPass>>
    /\ UNCHANGED <<chainFrame, status, stopped, runs, cancels, cancelCalled,
                   chainStopped, chainResult, progressUpdatedExternally, contextData,
                   attempts, isTaskSuccess, chainCancelling>>

\* AbstractTask.cancel() applied to the tasks in set
CancelAll(set) ==
    /\ stopped' = [t \in Tasks |-> IF t \in set THEN TRUE ELSE stopped[t]]
    /\ isPaused' = [t \in Tasks |-> IF t \in set THEN FALSE ELSE isPaused[t]]
    /\ status' = [t \in Tasks |-> IF t \in set /\ status[t] \in {PENDING, PAUSED}
                                   THEN CANCELLED ELSE status[t]]
    /\ cancelCalled' = [t \in Tasks |-> IF t \in set THEN cancelCalled[t] \/ status[t] \in NonTerminal
                                         ELSE cancelCalled[t]]

\* TaskManagerService.cancelTask(chain) -> TaskChain.cancel(), first part:
\* _performCancellationCleanup cancels every child
chainCancelChildren ==
    /\ chainPc \notin {"none", "done"}
    /\ ~chainCancelling
    /\ cancels < MaxCancels
    /\ cancels' = cancels + 1
    /\ chainCancelling' = TRUE
    /\ CancelAll(ChainTasks)
    /\ UNCHANGED <<maxRetries, currentRetryAttempts, uniqueType, pc, queueVars, activeTasks,
                   nextTask, runs, finishedEmitted, dispatchedAhead, retryDropped,
                   failSilently, chainStatus, chainStopped, chainProgress,
                   chainMaxRetries, chainResult, currentTaskIndex, chainRetryAttempts,
                   retryBehaviorMap, taskStates, progressUpdatedExternally, contextData,
                   chainPc, attempts, isTaskSuccess, endedInPass, serviceVars>>

\* TaskChain.cancel(), second part: AbstractTask.cancel() of the chain
chainCancelSelf ==
    /\ chainCancelling
    /\ chainCancelling' = FALSE
    /\ chainStopped' = TRUE
    /\ chainStatus' = IF chainStatus \in {PENDING, PAUSED} THEN CANCELLED ELSE chainStatus
    /\ UNCHANGED <<taskVars, pc, queueVars, activeTasks, envVars, histVars,
                   failSilently, chainProgress,
                   chainMaxRetries, chainResult, currentTaskIndex, chainRetryAttempts,
                   retryBehaviorMap, taskStates, progressUpdatedExternally, contextData,
                   chainPc, attempts, isTaskSuccess, endedInPass, serviceVars>>

\* TaskChain.onChainProgressUpdateRequest for this chain, while it is
\* subscribed: the executing child publishes ChainProgressUpdateRequest
chainProgressRequest(value) ==
    /\ chainPc = "body"
    /\ ~chainStopped /\ ~chainCancelling
    /\ value \in 0..100
    /\ chainProgress' = value
    /\ progressUpdatedExternally' = TRUE
    /\ UNCHANGED <<taskVars, pc, queueVars, activeTasks, envVars, histVars,
                   failSilently, chainStatus, chainStopped,
                   chainMaxRetries, chainResult, currentTaskIndex, chainRetryAttempts,
                   retryBehaviorMap, taskStates, contextData,
                   chainPc, attempts, isTaskSuccess, chainCancelling, endedInPass,
                   serviceVars>>

\* ------------------------------------------------ TaskManagerService.__init__
\* the default of the maxConcurrentTasks parameter of TaskQueue.__init__
DefaultMaxConcurrentTasks == 3

\* what task.serialize() keeps of a persistent pending task, as far as the
\* Queue reads it; deserialize() gives a task with these fields
Blobs == [uniqueType : UniqueType, maxRetries : 0..MaxRetriesBound]

\* TaskManagerService(...) is about to be called over a store whose
\* 'pendingTasks' entry saveState wrote with no or one persistent task
InitLoad ==
    /\ NoChain
    /\ NoScheduler
    /\ NoHistory
    /\ NoManagerCall
    /\ NoInterval
    /\ NoRace
    /\ NoStorage
    /\ NoContext
    /\ NoTags
    /\ storedPending \in {<<>>} \cup {<<b>> : b \in Blobs}
    /\ managerPc = "queueInit"
    /\ status = [t \in Tasks |-> PENDING]
    /\ stopped = [t \in Tasks |-> FALSE]
    /\ isPaused = [t \in Tasks |-> FALSE]
    /\ maxRetries = [t \in Tasks |-> 0]
    /\ currentRetryAttempts = [t \in Tasks |-> 0]
    /\ uniqueType = [t \in Tasks |-> NONE]
    /\ pc = [t \in Tasks |-> "idle"]
    /\ pendingTasks = <<>>
    /\ runningTasks = {}
    /\ activeUniqueKeys = <<>>
    /\ maxConcurrentTasks = DefaultMaxConcurrentTasks
    /\ retryTimers = {}
    /\ finishedEvents = <<>>
    /\ activeTasks = {}
    /\ nextTask = 1
    /\ cancels = 0
    /\ runs = [t \in Tasks |-> 0]
    /\ finishedEmitted = [t \in Tasks |-> "none"]
    /\ cancelCalled = [t \in Tasks |-> FALSE]
    /\ dispatchedAhead = [t \in Tasks |-> FALSE]
    /\ retryDropped = {}

\* TaskQueue.loadState: every blob of the store's 'pendingTasks' entry is
\* deserialized into a new task object and handed to addTask
loadState ==
    IF storedPending = <<>>
    THEN UNCHANGED <<taskVars, pc, queueVars, activeTasks, envVars, histVars>>
    ELSE addTaskBody(nextTask, Head(storedPending).uniqueType, Head(storedPending).maxRetries)

\* TaskManagerService.__init__ up to the end of TaskQueue.__init__, which
\* calls self.loadState(); the pool threads run the tasks dispatched so far
\* while the constructor goes on
queueInitLoad ==
    /\ managerPc = "queueInit"
    /\ managerPc' = "managerLoad"
    /\ loadState
    /\ UNCHANGED <<storedPending, chainVars, schedulerVars, trackerHistoryVars, apiVars>>

\* TaskManagerService.__init__: self.loadState(), which calls
\* self._taskQueue.loadState()
managerLoadState ==
    /\ managerPc = "managerLoad"
    /\ managerPc' = "applyConfig"
    /\ loadState
    /\ UNCHANGED <<storedPending, chainVars, schedulerVars, trackerHistoryVars, apiVars>>

\* TaskManagerService.__init__: self._applyConfig() with the configured
\* taskSystem.maxConcurrentTasks, the end of the constructor
applyConfig(count) ==
    /\ managerPc = "applyConfig"
    /\ managerPc' = "ready"
    /\ setMaxConcurrentTasksBody(count)
    /\ UNCHANGED <<storedPending, chainVars, schedulerVars, trackerHistoryVars, apiVars>>

\* ------------------------------------------------------------ TaskScheduler
ScheduledTasks == 1..NumScheduledTasks

\* the jobs created so far, numbered by their timers
Timers == 1..Len(timerTask)

\* TaskScheduler.removeScheduledTask on the Scheduler's variables, for a
\* jobId that is in _jobs: timer.stop(), del, _saveJobs
Unschedule(u, timers) ==
    /\ activeTimers' = timers \ {jobs[u]}
    /\ jobs' = DictDel(jobs, u)
    /\ storedJobs' = DOMAIN jobs \ {u}

\* TaskScheduler.addScheduledTask(task, 'date', runDate) with runDate in the
\* future, for the task with uuid u
addScheduledTask(u) ==
    /\ Len(timerTask) < MaxSchedules
    /\ LET timer == Len(timerTask) + 1 IN
       /\ timerTask' = Append(timerTask, u)
       /\ submissions' = Append(submissions, 0)
       /\ jobs' = DictSet(jobs, u, timer)
       /\ activeTimers' = activeTimers \cup {timer}
       /\ storedJobs' = DOMAIN jobs \cup {u}
    /\ UNCHANGED <<taskVars, pc, queueVars, activeTasks, envVars, histVars, chainVars,
                   loadVars, trackerHistoryVars, apiVars>>

\* TaskScheduler._executeScheduledTask, the timeout slot of the single-shot
\* timer of a 'date' job: the task is rebuilt from the job's data and
\* handed to TaskQueue.addTask, then removeScheduledTask(jobId), whose
\* KeyError for a jobId no longer in _jobs the except clause swallows
executeScheduledTask(timer) ==
    /\ timer \in activeTimers
    /\ nextTask <= NumQueueTasks
    /\ addTaskBody(nextTask, NONE, 0)
    /\ submissions' = [submissions EXCEPT ![timer] = @ + 1]
    /\ LET u == timerTask[timer] IN
       IF u \in DOMAIN jobs
       THEN Unschedule(u, activeTimers \ {timer})
       ELSE /\ activeTimers' = activeTimers \ {timer}
            /\ UNCHANGED <<jobs, storedJobs>>
    /\ UNCHANGED <<timerTask, chainVars, loadVars, trackerHistoryVars, apiVars>>

\* TaskScheduler.removeScheduledTask called by a client; KeyError for a
\* jobId that is not in _jobs
removeScheduledTask(u) ==
    /\ IF u \in DOMAIN jobs
       THEN Unschedule(u, activeTimers)
       ELSE UNCHANGED <<jobs, activeTimers, storedJobs>>
    /\ UNCHANGED <<timerTask, submissions>>
    /\ UNCHANGED <<taskVars, pc, queueVars, activeTasks, envVars, histVars, chainVars,
                   loadVars, trackerHistoryVars, apiVars>>

\* ------------------------------------------------- TaskTracker, histories
\* the default of the limit parameter of TaskTracker._addToHistory
HistoryLimit == 1000

\* the records 1..n in arrival order
Records(n) == [i \in 1..n |-> i]

\* "history_list[:] = history_list[-limit:]" cut at the wrong end
addToHistory_KeepOldest(list, item, limit) ==
    LET appended == Append(list, item) IN
    IF Len(appended) > limit THEN SubSeq(appended, 1, limit) ELSE appended

\* TaskTracker._addToHistory
addToHistory(list, item, limit) ==
    LET appended == Append(list, item) IN
    IF Len(appended) > limit
    THEN SubSeq(appended, Len(appended) - limit + 1, Len(appended))
    ELSE appended

\* a Tracker constructed over a store whose history entries saveState
\* wrote: empty, one short of the limit, or full
InitHistory ==
    /\ NoChain
    /\ NoStartup
    /\ NoScheduler
    /\ NoManagerCall
    /\ NoInterval
    /\ NoRace
    /\ NoStorage
    /\ NoContext
    /\ NoTags
    /\ IdleQueue
    /\ failedLogged \in {0, HistoryLimit - 1, HistoryLimit}
    /\ completedLogged \in {0, HistoryLimit - 1, HistoryLimit}
    /\ failedTaskHistory = Records(failedLogged)
    /\ completedTaskHistory = Records(completedLogged)
    /\ storedFailed = failedTaskHistory
    /\ storedCompleted = completedTaskHistory
    /\ arrivals = 0

\* TaskTracker.logFailedTask(task), called by the Queue for a failed run
logFailedTask(isPersistent) ==
    /\ arrivals < MaxArrivals
    /\ IF ~isPersistent
       THEN UNCHANGED trackerHistoryVars
       ELSE LET list == addToHistory(failedTaskHistory, failedLogged + 1, HistoryLimit) IN
            /\ failedTaskHistory' = list
            /\ failedLogged' = failedLogged + 1
            /\ arrivals' = arrivals + 1
            /\ storedFailed' = list
            /\ storedCompleted' = completedTaskHistory
            /\ UNCHANGED <<completedTaskHistory, completedLogged>>
    /\ UNCHANGED <<taskVars, pc, queueVars, activeTasks, envVars, histVars, chainVars,
                   loadVars, schedulerVars, apiVars>>

\* TaskTracker._onTaskFinished, the slot of a tracked task's taskFinished,
\* for a task that ended with status st
onTaskFinished(st, isPersistent) ==
    /\ arrivals < MaxArrivals
    /\ IF ~(st = COMPLETED /\ isPersistent)
       THEN UNCHANGED trackerHistoryVars
       ELSE LET list == addToHistory(completedTaskHistory, completedLogged + 1, HistoryLimit) IN
            /\ completedTaskHistory' = list
            /\ completedLogged' = completedLogged + 1
            /\ arrivals' = arrivals + 1
            /\ storedFailed' = failedTaskHistory
            /\ storedCompleted' = list
            /\ UNCHANGED <<failedTaskHistory, failedLogged>>
    /\ UNCHANGED <<taskVars, pc, queueVars, activeTasks, envVars, histVars, chainVars,
                   loadVars, schedulerVars, apiVars>>

\* ------------------------------------------------- TaskTracker, tag index
\* TaskTracker._isTaskChain
isTaskChain(t) == className[t] = TaskChain

\* the children of task t: TaskChain._tasks
ChildrenOf(t) == IF isTaskChain(t) THEN Range(taskList[t]) ELSE {}

\* TaskTracker.getUuidsByTag
getUuidsByTag(tag) == IF tag \in DOMAIN tagIndex THEN tagIndex[tag] ELSE {}

\* TaskTracker._indexTask, for each task of set: the uuid is added under
\* every tag the task carries now
indexTask(idx, set) ==
    [g \in DOMAIN idx \cup UNION {tags[t] : t \in set} |->
        (IF g \in DOMAIN idx THEN idx[g] ELSE {}) \cup {t \in set : g \in tags[t]}]

\* TaskTracker._unindexTask, for each task of set: the uuid is discarded
\* from the entry of every tag the task carries now, and an entry left empty
\* is deleted
unindexTask(idx, set) ==
    LET left == [g \in DOMAIN idx |-> idx[g] \ {t \in set : g \in tags[t]}]
    IN [g \in {h \in DOMAIN idx :
                  ~(left[h] = {} /\ \E t \in set : h \in tags[t])} |-> left[g]]

\* the tasks constructed: task 1 alone, or a chain 1 over the tasks after
\* it, which it stamps with '_ChainedChild' and 'Parent_1'; every task
\* carries its class name and the tags given to its constructor
InitTracker ==
    /\ NoChain
    /\ NoStartup
    /\ NoScheduler
    /\ NoHistory
    /\ NoManagerCall
    /\ NoInterval
    /\ NoRace
    /\ NoStorage
    /\ NoContext
    /\ IdleQueue
    /\ \E n \in 0..(NumQueueTasks - 1), own \in [Tasks -> SUBSET {"GroupA"}] :
          LET list == [i \in 1..n |-> i + 1]
              class == [t \in Tasks |-> IF t = 1 /\ n > 0 THEN TaskChain ELSE ConcreteTask]
          IN /\ taskList = [t \in Tasks |-> IF t = 1 THEN list ELSE <<>>]
             /\ className = class
             /\ tags = [t \in Tasks |->
                           {class[t]} \cup own[t]
                               \cup (IF t \in Range(list) THEN {ChainedChild, ParentTag}
                                     ELSE {})]
    /\ tagIndex = <<>>
    /\ chainChildTasks = <<>>
    /\ tagEdits = 0

trackerFrame == <<pc, queueVars, histVars, chainVars, loadVars, schedulerVars,
                  trackerHistoryVars, className, taskList, libVars>>

\* TaskTracker.addTask(task)
trackerAddTask(t) ==
    /\ IF t \in activeTasks
       THEN UNCHANGED <<activeTasks, tagIndex, chainChildTasks>>
       ELSE LET kids == ChildrenOf(t)
                fresh == kids \ (activeTasks \cup {t})
            IN /\ activeTasks' = activeTasks \cup {t} \cup kids
               /\ tagIndex' = indexTask(indexTask(tagIndex, {t}), fresh)
               /\ chainChildTasks' = [c \in DOMAIN chainChildTasks \cup kids |->
                                         IF c \in kids THEN t ELSE chainChildTasks[c]]
    /\ UNCHANGED <<taskVars, envVars, call, tags, tagEdits, trackerFrame>>

\* TaskTracker.removeTask(uuid); for a uuid not tracked it raises
\* TaskNotFoundException and nothing changes
trackerRemoveTask(t) ==
    /\ IF t \notin activeTasks
       THEN UNCHANGED <<activeTasks, tagIndex, chainChildTasks>>
       ELSE LET kids == ChildrenOf(t)
                gone == kids \cap (activeTasks \ {t})
            IN /\ activeTasks' = (activeTasks \ {t}) \ gone
               /\ tagIndex' = unindexTask(unindexTask(tagIndex, {t}), gone)
               /\ chainChildTasks' = [c \in DOMAIN chainChildTasks \ (kids \cup {t}) |->
                                         chainChildTasks[c]]
    /\ UNCHANGED <<taskVars, envVars, call, tags, tagEdits, trackerFrame>>

\* AbstractTask.addTag
addTag(t, tag) ==
    /\ tagEdits < MaxTagEdits
    /\ tagEdits' = tagEdits + 1
    /\ tags' = [tags EXCEPT ![t] = @ \cup {tag}]
    /\ UNCHANGED <<taskVars, envVars, call, activeTasks, tagIndex, chainChildTasks,
                   trackerFrame>>

\* AbstractTask.removeTag
removeTag(t, tag) ==
    /\ tagEdits < MaxTagEdits
    /\ tagEdits' = tagEdits + 1
    /\ tags' = [tags EXCEPT ![t] = @ \ {tag}]
    /\ UNCHANGED <<taskVars, envVars, call, activeTasks, tagIndex, chainChildTasks,
                   trackerFrame>>

\* the uuids stopTasksByTag calls cancelTask with
StopTargets(tag, includeChainedChildren) ==
    IF includeChainedChildren THEN getUuidsByTag(tag)
    ELSE getUuidsByTag(tag) \ getUuidsByTag(ChainedChild)

\* TaskManagerService.stopTasksByTag: cancelTask for every target; for a
\* uuid not tracked cancelTask raises and the exception is logged; cancel()
\* of a chain cancels its children, then the chain
stopTasksByTag(tag, includeChainedChildren) ==
    LET found == StopTargets(tag, includeChainedChildren) \cap activeTasks
        cancelled == found \cup UNION {ChildrenOf(c) : c \in found}
    IN /\ cancels < MaxCancels
       /\ cancels' = cancels + 1
       /\ CancelAll(cancelled)
       /\ cancelCalled' = [t \in Tasks |->
                              cancelCalled[t] \/ (t \in cancelled /\ status[t] \in NonTerminal)]
       /\ call' = [op |-> "stopTasksByTag", tag |-> tag,
                   includeChainedChildren |-> includeChainedChildren]
       /\ UNCHANGED <<maxRetries, currentRetryAttempts, uniqueType, pc, queueVars,
                      activeTasks, nextTask, runs, finishedEmitted, dispatchedAhead,
                      retryDropped, chainVars, loadVars, schedulerVars,
                      trackerHistoryVars, tagVars, libVars>>

\* ------------------------------------------------------------ ChainContext
\* the variables of the task system, which the components below leave alone
coreVars == <<taskVars, pc, queueVars, activeTasks, envVars, histVars, chainVars,
              loadVars, schedulerVars, trackerHistoryVars, managerVars, tagVars>>

contextFrame == <<coreVars, storageVars, raceVars, intervalVars>>

\* what ChainContext.set keeps of the value it is given: the value itself,
\* self._data[key] = value
Stored(o) == o

\* ChainContext.set(key, value) with a list or dict: json.dumps(value)
\* succeeds, the value is stored; the client keeps its reference
contextSet(k, o) ==
    /\ contextValues' = DictSet(contextValues, k, Stored(o))
    /\ valueAtSet' = DictSet(valueAtSet, k, heap[o])
    /\ held' = held \cup {o}
    /\ UNCHANGED <<heap, contextFrame>>

\* ChainContext.get(key) of a key that was set: self._data.get(key, default)
\* hands the stored object to the client
contextGet(k) ==
    /\ k \in DOMAIN contextValues
    /\ held' = held \cup {contextValues[k]}
    /\ UNCHANGED <<contextValues, heap, valueAtSet, contextFrame>>

\* the client changes, in place, an object it holds a reference to
mutate(o, c) ==
    /\ o \in held
    /\ heap[o] # c
    /\ heap' = [heap EXCEPT ![o] = c]
    /\ UNCHANGED <<contextValues, held, valueAtSet, contextFrame>>

\* the contents of what ChainContext.get(key) returns
get(k) == heap[contextValues[k]]

\* the contents of the 'data' of ChainContext.serialize(): self._data.copy()
\* holds the same objects under the same keys
serialize == [k \in DOMAIN contextValues |-> heap[contextValues[k]]]

\* ------------------------------------------------------------- JsonStorage
storageFrame == <<coreVars, contextVars, raceVars, intervalVars>>

\* the file json.dump has written document to
Json(document) == [kind |-> "json", document |-> document]

\* JsonStorage._load_file: the file's document; {} when the file does not
\* exist or json.load raises
loadFile(file) == IF file.kind = "json" THEN file.document ELSE <<>>

\* JsonStorage.load(key, default=None)
load(key) == IF key \in DOMAIN storeData THEN storeData[key] ELSE DefaultValue

\* JsonStorage.save(key, value) up to the opening of the file in
\* _save_file: self._data[key] = value, then open(path, 'w') truncates the
\* file
storageSave(key, value) ==
    /\ storePc = "idle"
    /\ storeData' = DictSet(storeData, key, value)
    /\ storeFile' = Torn
    /\ storePc' = "writing"
    /\ savingKey' = key
    /\ fileBefore' = storeFile.document
    /\ interrupted' = NoInterrupt
    /\ UNCHANGED storageFrame

\* _save_file: json.dump has written the whole of _data and the file is
\* closed
storageWritten ==
    /\ storePc = "writing"
    /\ storeFile' = Json(storeData)
    /\ storePc' = "idle"
    /\ savingKey' = "none"
    /\ fileBefore' = <<>>
    /\ UNCHANGED <<storeData, interrupted, storageFrame>>

\* the process dies and is started again: JsonStorage.__init__ reads the
\* file as it was left
crashRestart ==
    /\ storeData' = loadFile(storeFile)
    /\ storePc' = "idle"
    /\ savingKey' = "none"
    /\ fileBefore' = <<>>
    /\ interrupted' = IF storePc = "writing"
                      THEN [key |-> savingKey, before |-> fileBefore]
                      ELSE NoInterrupt
    /\ UNCHANGED <<storeFile, storageFrame>>

\* ------------------------------------- run() and pauseTask, statement-wise
\* The pool thread and the main thread share the task object without a lock
\* around status: the statements of run() after handle() and those of
\* pauseTask / resumeTask interleave one by one.

\* what a statement of run() leaves alone besides status, pc and the emission
runFrame == <<stopped, isPaused, maxRetries, currentRetryAttempts, uniqueType,
              pendingTasks, runningTasks, activeUniqueKeys, maxConcurrentTasks,
              retryTimers, activeTasks, envVars, runs, cancelCalled, dispatchedAhead,
              retryDropped, otherVars>>

\* handle() has returned: "if isStopped(): setStatus(CANCELLED) / elif
\* status == FAILED: pass / else: setStatus(COMPLETED)"
runFinalStatus(t) ==
    /\ pc[t] = "handle"
    /\ status' = [status EXCEPT ![t] = IF stopped[t] THEN CANCELLED
                                       ELSE IF @ = FAILED THEN FAILED ELSE COMPLETED]
    /\ pc' = [pc EXCEPT ![t] = "finally"]
    /\ UNCHANGED <<finishedEvents, finishedEmitted, runFrame>>

\* handle() has raised an Exception: setStatus(FAILED) of the except branch
runRaises(t) ==
    /\ pc[t] = "handle"
    /\ status' = [status EXCEPT ![t] = FAILED]
    /\ pc' = [pc EXCEPT ![t] = "finallyRaised"]
    /\ UNCHANGED <<finishedEvents, finishedEmitted, runFrame>>

\* the finally block: taskFinished.emit, and run() is over
runFinally(t) ==
    /\ pc[t] \in {"finally", "finallyRaised"}
    /\ UNCHANGED <<status, runFrame>>
    /\ EmitFinished(t, IF pc[t] = "finally" THEN NoException ELSE PlainException)

\* what a statement of pauseTask or resumeTask leaves alone besides status,
\* _isPaused and the main thread's position
mainFrame == <<stopped, maxRetries, currentRetryAttempts, uniqueType, pc, queueVars,
               activeTasks, envVars, histVars, chainVars, loadVars, schedulerVars,
               trackerHistoryVars, managerVars, tagVars, contextVars, storageVars,
               intervalVars>>

\* TaskManagerService.pauseTask(uuid) up to task.pause(): the task is
\* tracked and its status is RUNNING
pauseTaskTest(t) ==
    /\ mainPc = MainIdle
    /\ ~NotFound(t)
    /\ ~PauseRejected(t)
    /\ mainPc' = [op |-> "pauseTask", uuid |-> t]
    /\ UNCHANGED <<status, isPaused, mainFrame>>

\* AbstractTask.pause(): _isPaused = True, setStatus(PAUSED)
pauseTaskPause(t) ==
    /\ mainPc = [op |-> "pauseTask", uuid |-> t]
    /\ isPaused' = [isPaused EXCEPT ![t] = TRUE]
    /\ status' = [status EXCEPT ![t] = PAUSED]
    /\ mainPc' = MainIdle
    /\ UNCHANGED mainFrame

\* TaskManagerService.resumeTask(uuid) up to task.resume(): the task is
\* tracked and its status is PAUSED
resumeTaskTest(t) ==
    /\ mainPc = MainIdle
    /\ ~NotFound(t)
    /\ ~ResumeRejected(t)
    /\ mainPc' = [op |-> "resumeTask", uuid |-> t]
    /\ UNCHANGED <<status, isPaused, mainFrame>>

\* AbstractTask.resume(): _isPaused = False, setStatus(RUNNING)
resumeTaskResume(t) ==
    /\ mainPc = [op |-> "resumeTask", uuid |-> t]
    /\ isPaused' = [isPaused EXCEPT ![t] = FALSE]
    /\ status' = [status EXCEPT ![t] = RUNNING]
    /\ mainPc' = MainIdle
    /\ UNCHANGED mainFrame

\* ---------------------------------- 'interval' jobs, task object by object
\* Each firing of an interval timer rebuilds the task from the job's data and
\* gives the new object the job's uuid; the Queue and the Tracker key their
\* dicts by uuid.  The objects are told apart here.
intervalFrame == <<coreVars, contextVars, storageVars, raceVars>>

\* TaskQueue._processQueue over objects none of which is cancelled:
\* "self._runningTasks[task.uuid] = task", taskFinished.connect,
\* threadPool.start; uuid are the objects' uuids
RECURSIVE dispatchObjects(_, _, _)
dispatchObjects(q, uuid, limit) ==
    IF HasFreeSlot(DOMAIN q.running, limit) /\ q.pending # <<>>
    THEN LET o == Head(q.pending) IN
         dispatchObjects([pending |-> Tail(q.pending),
                          running |-> DictSet(q.running, uuid[o], o),
                          pc |-> [q.pc EXCEPT ![o] = "start"],
                          connected |-> q.connected \cup {o}],
                         uuid, limit)
    ELSE q

\* write back the Queue after _processQueue
CommitObjects(q) ==
    /\ pendingObjects' = q.pending
    /\ runningDict' = q.running
    /\ objectPc' = q.pc
    /\ connected' = q.connected

\* TaskScheduler.addScheduledTask(task, 'interval', intervalSeconds=s) of a
\* task that has no job yet
addIntervalJob(u) ==
    /\ u \notin intervalJobs
    /\ intervalJobs' = intervalJobs \cup {u}
    /\ UNCHANGED <<objectUuid, objectPc, pendingObjects, runningDict, trackedDict,
                   connected, finishedQueue, intervalFrame>>

\* TaskScheduler.removeScheduledTask of an interval job
removeIntervalJob(u) ==
    /\ u \in intervalJobs
    /\ intervalJobs' = intervalJobs \ {u}
    /\ UNCHANGED <<objectUuid, objectPc, pendingObjects, runningDict, trackedDict,
                   connected, finishedQueue, intervalFrame>>

\* TaskScheduler._executeScheduledTask at a firing of the repeating timer of
\* an interval job: taskCls.deserialize(taskData) with task.uuid = taskUuid,
\* TaskQueue.addTask (append, TaskTracker.addTask, which returns early for a
\* uuid it tracks, _processQueue); the timer stays armed
intervalFires(u) ==
    /\ u \in intervalJobs
    /\ Len(objectUuid) < MaxFirings
    /\ LET o == Len(objectUuid) + 1 IN
       /\ objectUuid' = Append(objectUuid, u)
       /\ trackedDict' = IF u \in DOMAIN trackedDict THEN trackedDict
                         ELSE DictSet(trackedDict, u, o)
       /\ CommitObjects(dispatchObjects(
              [pending |-> Append(pendingObjects, o), running |-> runningDict,
               pc |-> Append(objectPc, "new"), connected |-> connected],
              Append(objectUuid, u), maxConcurrentTasks))
    /\ UNCHANGED <<intervalJobs, finishedQueue, intervalFrame>>

\* run() of an object begins on a pool thread
objectRunStarts(o) ==
    /\ objectPc[o] = "start"
    /\ objectPc' = [objectPc EXCEPT ![o] = "handle"]
    /\ UNCHANGED <<intervalJobs, objectUuid, pendingObjects, runningDict, trackedDict,
                   connected, finishedQueue, intervalFrame>>

\* handle() of an object returns: setStatus(COMPLETED), taskFinished.emit,
\* delivered to the Queue if the object's signal is still connected
objectRunEnds(o) ==
    /\ objectPc[o] = "handle"
    /\ objectPc' = [objectPc EXCEPT ![o] = "finished"]
    /\ finishedQueue' = IF o \in connected THEN Append(finishedQueue, o) ELSE finishedQueue
    /\ UNCHANGED <<intervalJobs, objectUuid, pendingObjects, runningDict, trackedDict,
                   connected, intervalFrame>>

\* TaskQueue._handleTaskCompletion(uuid, task, ...) for the oldest queued
\* taskFinished, the emitting task being Completed: the entry under the uuid
\* is popped and its object disconnected, TaskTracker.removeTask (a
\* TaskNotFoundException is caught), _processQueue
objectCompletion ==
    /\ finishedQueue # <<>>
    /\ LET o == Head(finishedQueue)
           uuid == objectUuid[o]
       IN /\ finishedQueue' = Tail(finishedQueue)
          /\ IF uuid \notin DOMAIN runningDict
             THEN /\ objectPc' = [objectPc EXCEPT ![o] = "handled"]
                  /\ UNCHANGED <<pendingObjects, runningDict, trackedDict, connected>>
             ELSE LET q == dispatchObjects(
                               [pending |-> pendingObjects,
                                running |-> DictDel(runningDict, uuid),
                                pc |-> [objectPc EXCEPT ![o] = "handled"],
                                connected |-> connected \ {runningDict[uuid]}],
                               objectUuid, maxConcurrentTasks)
                  IN /\ CommitObjects(q)
                     /\ trackedDict' = DictDel(trackedDict, uuid)
    /\ UNCHANGED <<intervalJobs, objectUuid, intervalFrame>>

\* --------------------------------------------------------------- behaviour
Next ==
    \/ \E t \in 1..NumTasks, ut \in UniqueType, mr \in 0..MaxRetriesBound : addTask(t, ut, mr)
    \/ \E count \in 0..MaxLimit : setMaxConcurrentTasks(count)
    \/ handleTaskCompletion
    \/ \E t \in Tasks : retryTask(t)
    \/ \E t \in Tasks : runStart(t)
    \/ \E t \in Tasks, exc \in {PlainException, PermanentTaskFailure} : handleRaises(t, exc)
    \/ \E t \in Tasks : handleRaisesCancellation(t)
    \/ \E t \in Tasks : handleReturns(t)
    \/ \E t \in Tasks : cancelTask(t)
    \/ \E t \in Tasks : pauseTask(t)
    \/ \E t \in Tasks : resumeTask(t)

Spec == Init /\ [][Next]_vars

\* the end of the body of run(), whichever way
bodyEnds(t) ==
    \/ handleReturns(t)
    \/ \E exc \in {PlainException, PermanentTaskFailure} : handleRaises(t, exc)
    \/ handleRaisesCancellation(t)

\* the steps the scheduling owes the tasks: the event loop of the main
\* thread delivers a queued taskFinished or fires a retry timer, the pool
\* starts a task handed to it, a body ends
Scheduled ==
    \/ handleTaskCompletion
    \/ \E t \in Tasks : retryTask(t)
    \/ \E t \in Tasks : runStart(t)
    \/ \E t \in Tasks : bodyEnds(t)

\* NumTasks tasks of any maxRetries, submitted and cancelled at any time,
\* under fair scheduling: the event loop and the pool do not stop while one
\* of these steps is due.  Pause, which the claim of progress excludes, the
\* uniqueness types and changes of the limit are left to Spec.
NextLive ==
    \/ \E t \in 1..NumTasks, mr \in 0..MaxRetriesBound : addTask(t, NONE, mr)
    \/ Scheduled
    \/ \E t \in Tasks : cancelTask(t)

SpecLive == Init /\ [][NextLive]_vars /\ WF_vars(Scheduled)

\* every task is constructed with maxRetries = MaxRetriesBound
NextQueue ==
    \/ \E t \in Tasks, ut \in UniqueType :
           /\ addTask(t, ut, MaxRetriesBound)
    \/ \E count \in 0..MaxLimit : setMaxConcurrentTasks(count)
    \/ handleTaskCompletion
    \/ \E t \in Tasks : retryTask(t)
    \/ \E t \in Tasks : runStart(t)
    \/ \E t \in Tasks : handleRaises(t, PlainException)
    \/ \E t \in Tasks : handleRaisesCancellation(t)
    \/ \E t \in Tasks : handleReturns(t)
    \/ \E t \in Tasks : cancelTask(t)

SpecQueue == Init /\ [][NextQueue]_vars

\* the run of one chain, with cancellation of the chain and of its children
\* and progress requests; pause and resume are left out as in SpecQueue
NextChain ==
    \/ chainRunStart
    \/ chainLoop
    \/ chainAttempt
    \/ chainSleepEnds
    \/ childReturns
    \/ \E exc \in {TaskFailedException, PlainException} : childFails(exc)
    \/ childRaisesCancellation
    \/ chainAfter
    \/ chainCancelChildren
    \/ chainCancelSelf
    \/ \E t \in Children : chainPc # "done" /\ ~chainCancelling /\ cancelTask(t)
    \/ \E value \in ExternalProgress : chainProgressRequest(value)

SpecChain == InitChain /\ [][NextChain]_vars

\* the steps of the pool thread executing the chain's run()
ChainThread ==
    \/ chainRunStart
    \/ chainLoop
    \/ chainAttempt
    \/ chainSleepEnds
    \/ childReturns
    \/ \E exc \in {TaskFailedException, PlainException} : childFails(exc)
    \/ childRaisesCancellation
    \/ chainAfter

\* SpecChain with a pool thread that keeps executing and children whose
\* bodies and retry delays end
SpecChainFair == SpecChain /\ WF_vars(ChainThread)

\* the run of one longer chain left to itself: no cancellation, no progress
\* request, children that fail by fail()
NextProgress ==
    \/ chainRunStart
    \/ chainLoop
    \/ chainAttempt
    \/ chainSleepEnds
    \/ childReturns
    \/ childFails(TaskFailedException)
    \/ chainAfter

SpecProgress == InitProgress /\ [][NextProgress]_vars

\* the construction of the Manager over a store, with the pool threads
\* running the restored tasks meanwhile; no queued event is delivered while
\* the main thread is in the constructor
NextLoad ==
    \/ queueInitLoad
    \/ managerLoadState
    \/ \E count \in 1..MaxLimit : applyConfig(count)
    \/ \E t \in Tasks : runStart(t)
    \/ \E t \in Tasks : handleRaises(t, PlainException)
    \/ \E t \in Tasks : handleReturns(t)

SpecLoad == InitLoad /\ [][NextLoad]_vars

\* 'date' jobs of the Scheduler over an idle Queue, with the pool threads
\* starting the tasks submitted
NextScheduler ==
    \/ \E u \in ScheduledTasks : addScheduledTask(u)
    \/ \E timer \in Timers : executeScheduledTask(timer)
    \/ \E u \in ScheduledTasks : removeScheduledTask(u)
    \/ \E t \in Tasks : runStart(t)

SpecScheduler == Init /\ [][NextScheduler]_vars

\* the Tracker's histories under failures and completions of persistent
\* and other tasks
NextHistory ==
    \/ \E isPersistent \in BOOLEAN : logFailedTask(isPersistent)
    \/ \E st \in {COMPLETED, FAILED, CANCELLED}, isPersistent \in BOOLEAN :
           onTaskFinished(st, isPersistent)

SpecHistory == InitHistory /\ [][NextHistory]_vars

\* the Tracker's registration and tag index under addTask and removeTask of
\* plain tasks, of a chain and of its children, with tags added and removed
\* meanwhile, and the bulk stop by tag
NextTracker ==
    \/ \E t \in Tasks : trackerAddTask(t)
    \/ \E t \in Tasks : trackerRemoveTask(t)
    \/ \E t \in Tasks, tag \in UserTags : addTag(t, tag)
    \/ \E t \in Tasks, tag \in UserTags : removeTag(t, tag)
    \/ \E tag \in UserTags, includeChainedChildren \in BOOLEAN :
           stopTasksByTag(tag, includeChainedChildren)

SpecTracker == InitTracker /\ [][NextTracker]_vars

\* calls of cancelTask, pauseTask, resumeTask and getTaskInfo with the uuids
\* of tracked tasks, of tasks the Tracker has dropped and of no task, while
\* plain tasks are submitted and run
NextManager ==
    \/ \E t \in 1..NumTasks : addTask(t, NONE, 0)
    \/ handleTaskCompletion
    \/ \E t \in Tasks : runStart(t)
    \/ \E t \in Tasks : handleReturns(t)
    \/ \E uuid \in Tasks : cancelTaskCall(uuid)
    \/ \E uuid \in Tasks : pauseTaskCall(uuid)
    \/ \E uuid \in Tasks : resumeTaskCall(uuid)
    \/ \E uuid \in Tasks : getTaskInfo(uuid)

SpecManager == Init /\ [][NextManager]_vars

\* a ChainContext and the client's objects: values are set, read back and
\* changed in place by the client
NextContext ==
    \/ \E k \in ContextKeys, o \in Objects : contextSet(k, o)
    \/ \E k \in ContextKeys : contextGet(k)
    \/ \E o \in Objects, c \in Contents : mutate(o, c)

SpecContext == Init /\ [][NextContext]_vars

\* tasks without retries under pauseTask and resumeTask, the statements of
\* run() and of the two calls interleaved; the Queue's handlers run between
\* the calls of the main thread
NextRace ==
    \/ \E t \in 1..NumTasks : mainPc = MainIdle /\ addTask(t, NONE, 0)
    \/ mainPc = MainIdle /\ handleTaskCompletion
    \/ \E t \in Tasks : runStart(t)
    \/ \E t \in Tasks : runFinalStatus(t)
    \/ \E t \in Tasks : runRaises(t)
    \/ \E t \in Tasks : runFinally(t)
    \/ \E t \in Tasks : pauseTaskTest(t)
    \/ \E t \in Tasks : pauseTaskPause(t)
    \/ \E t \in Tasks : resumeTaskTest(t)
    \/ \E t \in Tasks : resumeTaskResume(t)

SpecRace == Init /\ [][NextRace]_vars

\* interval jobs over an idle Queue, with the pool threads running the
\* tasks the firings submit
NextInterval ==
    \/ \E u \in ScheduledTasks : addIntervalJob(u)
    \/ \E u \in ScheduledTasks : removeIntervalJob(u)
    \/ \E u \in ScheduledTasks : intervalFires(u)
    \/ \E o \in DOMAIN objectPc : objectRunStarts(o)
    \/ \E o \in DOMAIN objectPc : objectRunEnds(o)
    \/ objectCompletion

SpecInterval == Init /\ [][NextInterval]_vars

\* a JsonStorage whose process may die at any point of a save
NextStorage ==
    \/ \E key \in StoreKeys, value \in StoreValues : storageSave(key, value)
    \/ storageWritten
    \/ crashRestart

SpecStorage == Init /\ [][NextStorage]_vars

\* ------------------------------------------------------------------ claims
InQueue == Range(pendingTasks) \cup runningTasks

\* C1 (as stated): in every reachable state, also after the limit was
\* lowered, the running set holds at most maxConcurrent tasks
C1_RunningWithinLimit == Cardinality(runningTasks) <= maxConcurrentTasks

\* C1 (amended): no operation adds a task to the running set unless the set
\* then holds at most maxConcurrent tasks; the running set exceeds the limit
\* only when setMaxConcurrentTasks lowered the limit below the number of
\* tasks already running, and then nothing is dispatched until it drains
C1_NoDispatchAboveLimit ==
    [][/\ runningTasks' \subseteq runningTasks \/ Cardinality(runningTasks') <= maxConcurrentTasks'
       /\ Cardinality(runningTasks') > maxConcurrentTasks'
             => \/ maxConcurrentTasks' < maxConcurrentTasks
                \/ Cardinality(runningTasks) > maxConcurrentTasks]_vars

\* the limit was lowered under two running tasks, which go on running
C1_Witness ==
    /\ Cardinality(runningTasks) = 2
    /\ maxConcurrentTasks = 1
    /\ \A t \in runningTasks : pc[t] = "handle"

\* C2: for every key, at most one Job task with that key is in pending or
\* running
C2_JobUnique ==
    \A a, b \in InQueue :
        (uniqueType[a] = JOB /\ uniqueType[b] = JOB /\ uniqueVia(a) = uniqueVia(b)) => a = b

\* C3: for every key, at most one UntilProcessing task with that key is in
\* pending
C3_UntilProcessingUnique ==
    \A a, b \in Range(pendingTasks) :
        (uniqueType[a] = UNTIL_PROCESSING /\ uniqueType[b] = UNTIL_PROCESSING
         /\ uniqueVia(a) = uniqueVia(b)) => a = b

\* the transitions of the task state machine
LegalTransitions ==
    {<<PENDING, RUNNING>>, <<RUNNING, COMPLETED>>, <<RUNNING, FAILED>>,
     <<RUNNING, CANCELLED>>, <<RUNNING, PAUSED>>, <<PAUSED, RUNNING>>,
     <<PAUSED, CANCELLED>>, <<PENDING, CANCELLED>>, <<FAILED, RETRYING>>,
     <<RETRYING, PENDING>>}

\* the Tracker drops the task in this step
Released(t) == t \in activeTasks /\ t \notin activeTasks'

\* C4: every change of a task's status is a transition of the task state
\* machine; in particular none leaves Completed or Cancelled
C4_StatusFollowsStateMachine ==
    [][\A t \in Tasks :
          (t \in activeTasks' /\ status'[t] # status[t])
              => <<status[t], status'[t]>> \in LegalTransitions]_vars

\* C5: a task is removed from the Tracker only after taskFinished was
\* emitted for the outcome it is removed with
C5_FinishedBeforeRemoval ==
    [][\A t \in Tasks : Released(t) => finishedEmitted[t] = status[t]]_vars

\* C6: once cancel() was called on a task in a non-terminal status, a status
\* of Cancelled stays, and the task leaves the system Cancelled (a body that
\* raised instead of honouring the stop flag leaves it Failed)
C6_CancelledAndStays ==
    [][\A t \in Tasks :
          /\ (cancelCalled[t] /\ status[t] = CANCELLED /\ ~Released(t))
                => status'[t] = CANCELLED
          /\ (cancelCalled[t] /\ Released(t)) => status[t] \in {CANCELLED, FAILED}]_vars

\* C7: currentRetryAttempts changes only by one, in the handling of a run
\* that ended Failed with the stop flag clear and attempts left, which
\* schedules the re-enqueue; a task enters pending again only from that
\* schedule; currentRetryAttempts <= maxRetries, the body has begun at most
\* currentRetryAttempts + 1 <= maxRetries + 1 times, and a Completed task has
\* run exactly currentRetryAttempts + 1 times
C7_RetryBookkeeping ==
    [][\A t \in Tasks :
          /\ (t \in activeTasks' /\ currentRetryAttempts'[t] # currentRetryAttempts[t])
                => /\ currentRetryAttempts'[t] = currentRetryAttempts[t] + 1
                   /\ finishedEmitted[t] = FAILED /\ status[t] = FAILED
                   /\ ~stopped[t]
                   /\ currentRetryAttempts[t] < maxRetries[t]
                   /\ t \in retryTimers' \ retryTimers
          /\ t \in retryTimers' \ retryTimers
                => currentRetryAttempts'[t] = currentRetryAttempts[t] + 1
          /\ (t \in activeTasks /\ t \in InQueue' \ InQueue) => t \in retryTimers
          /\ currentRetryAttempts'[t] <= maxRetries'[t]
          /\ runs'[t] <= currentRetryAttempts'[t] + 1
          /\ status'[t] = COMPLETED => runs'[t] = currentRetryAttempts'[t] + 1]_vars

\* a task that failed its first run, was retried and succeeded
C7_Witness ==
    \E t \in Tasks : status[t] = COMPLETED /\ currentRetryAttempts[t] = 1 /\ runs[t] = 2

\* C8: a task whose retry delay expires with the stop flag set is not
\* re-appended to pending and is removed from the Tracker; a task the
\* Tracker has dropped is never in pending, running or a retry wait again
C8_CancelledRetryDropped ==
    [][\A t \in Tasks :
          /\ (t \in retryTimers \ retryTimers' /\ stopped[t])
                => t \notin activeTasks' /\ t \notin InQueue'
          /\ t \notin activeTasks'
                => t \notin InQueue' /\ t \notin retryTimers' /\ pc'[t] = "idle"]_vars

\* the retry delay of a cancelled task has expired and the Queue dropped it
C8_Witness ==
    \E t \in retryDropped : t \notin activeTasks /\ t \notin InQueue /\ cancels > 0

\* C9: the Queue schedules no retry for a run that raised
\* PermanentTaskFailure
C9_PermanentNotRetried ==
    [][\A t \in retryTimers' \ retryTimers :
          Head(finishedEvents).exception # PermanentTaskFailure]_vars

\* C10: every operation takes the tasks it dispatches or skips from the
\* front of pending, in order: what is left is what stood behind them, with
\* the newly appended task last, and the tasks moved to running are the
\* ones taken that were not cancelled
C10_FifoDispatch ==
    [][\E k \in 0..(Len(pendingTasks) + 1) :
          \E app \in {<<>>} \cup {<<x>> : x \in Tasks} :
             LET full == pendingTasks \o app IN
             /\ k <= Len(full)
             /\ pendingTasks' = SubSeq(full, k + 1, Len(full))
             /\ runningTasks' \ runningTasks
                   = {full[i] : i \in {j \in 1..k : status[full[j]] # CANCELLED}}]_vars

\* a task was dispatched from the front of pending while a task admitted
\* after it stays waiting
C10_Witness ==
    \E t \in runningTasks : dispatchedAhead[t] /\ pendingTasks # <<>>

\* the tasks of pending and of running that count for key k
PendingWithKey(k) ==
    {i \in DOMAIN pendingTasks :
        uniqueType[pendingTasks[i]] # NONE /\ uniqueVia(pendingTasks[i]) = k}

RunningWithKey(k) == {t \in runningTasks : uniqueType[t] # NONE /\ uniqueVia(t) = k}

\* C16: for every key the uniqueness index holds the numbers of tasks with
\* that key and uniqueType other than None in pending and in running, a
\* retried task included, and holds no entry when both numbers are zero
C16_IndexMatchesQueue ==
    \A k \in Keys :
        /\ StatsGet(activeUniqueKeys, k)
               = [pending |-> Cardinality(PendingWithKey(k)),
                  running |-> Cardinality(RunningWithKey(k))]
        /\ k \in DOMAIN activeUniqueKeys
               => Cardinality(PendingWithKey(k)) + Cardinality(RunningWithKey(k)) > 0

\* C17: a run whose handle() raises an exception (other than the
\* cancellation exception) while the task's stop flag is set ends Cancelled
C17_CancelledWins ==
    [][\A t \in Tasks :
          (/\ pc[t] = "handle" /\ pc'[t] = "idle"
           /\ stopped[t]
           /\ Len(finishedEvents') > Len(finishedEvents)
           /\ finishedEvents'[Len(finishedEvents')].exception # NoException)
              => status'[t] = CANCELLED]_vars

\* C15: when the Manager has been constructed over a store whose pending
\* entry holds n blobs, the Queue holds exactly n tasks, pending or running:
\* one per blob, none lost, none twice
C15_OneTaskPerBlob ==
    managerPc = "ready"
        => Len(pendingTasks) + Cardinality(runningTasks) = Len(storedPending)

\* job timer is the value getScheduledJobs() lists under its jobId
Listed(timer) == timerTask[timer] \in DOMAIN jobs /\ jobs[timerTask[timer]] = timer

\* C18: a 'date' job hands its task to the Queue exactly once, at the firing
\* of its timer: never more than once, its jobId is listed while its timer
\* is still to fire, and the job is not listed once it has fired
C18_DateJobOnce ==
    \A timer \in Timers :
        /\ submissions[timer] <= 1
        /\ timer \in activeTimers => timerTask[timer] \in DOMAIN jobs
        /\ submissions[timer] = 1 => ~Listed(timer)

\* the most recent records of n arrivals, at most HistoryLimit, in arrival
\* order
MostRecent(n) ==
    LET len == IF n < HistoryLimit THEN n ELSE HistoryLimit
    IN [i \in 1..len |-> n - len + i]

\* C19: failedTaskHistory and completedTaskHistory hold at most 1000 records
\* each, and each is the most recent records of its list in arrival order
C19_HistoryBoundedFifo ==
    /\ Len(failedTaskHistory) <= HistoryLimit
    /\ Len(completedTaskHistory) <= HistoryLimit
    /\ failedTaskHistory = MostRecent(failedLogged)
    /\ completedTaskHistory = MostRecent(completedLogged)

\* both lists are full and have evicted their oldest records
C19_Witness ==
    /\ arrivals > 0
    /\ Len(failedTaskHistory) = HistoryLimit /\ Head(failedTaskHistory) > 1
    /\ Len(completedTaskHistory) = HistoryLimit /\ Head(completedTaskHistory) > 1

\* ----------------------------------------------------------- claims, chain
\* every child of the chain falls under StopChain
AllStopChain == \A k \in Children : BehaviorOf(k) = STOP_CHAIN

\* every child kind is mapped to SkipTask
AllSkipTask == \A k \in Children : BehaviorOf(k) = SKIP_TASK

\* cancel() of the chain was never called
ChainNeverCancelled == ~chainStopped /\ ~chainCancelling

\* C11: a chain whose children all fall under StopChain does not end its run
\* Completed when some child ended Failed or Cancelled or was never run:
\* Completed at the end of the run means every child ended Completed (here
\* for a chain that was not cancelled itself)
C11_CompletedOnlyIfAllCompleted ==
    (chainPc = "done" /\ AllStopChain /\ ChainNeverCancelled /\ chainStatus = COMPLETED)
        => \A k \in Children : status[k] = COMPLETED

\* C12: with every child kind mapped to SkipTask and nothing cancelled, the
\* chain ends Completed whichever children fail and however they fail, every
\* child was run, and the result is the context data of the children that
\* completed
C12_SkipTaskCompletes ==
    (chainPc = "done" /\ AllSkipTask /\ cancels = 0)
        => /\ chainStatus = COMPLETED
           /\ \A k \in Children : runs[k] > 0
           /\ chainResult = {k \in Children : status[k] = COMPLETED}

\* C13: when the child the chain was executing ended Cancelled, the chain's
\* run ends Cancelled, unless the chain is Failed
C13_CancelledChildCancelsChain ==
    (chainPc = "done" /\ \E k \in endedInPass : status[k] = CANCELLED)
        => chainStatus \in {CANCELLED, FAILED}

\* C14: children execute strictly sequentially in list order: at most one
\* child is Running at any time, and a child is started only while no child
\* is executing and after every child before it in the list has finished
\* its run in this pass over the list
C14_Sequential ==
    [][/\ Cardinality({k \in Children : status'[k] = RUNNING}) <= 1
       /\ \A j \in Children :
             runs'[j] > runs[j]
                 => /\ chainPc # "body"
                    /\ \A i \in Children : status[i] # RUNNING
                    /\ \A i \in 1..(j - 1) : i \in endedInPass]_vars

\* the second child is executing after the first one finished its run
C14_Witness ==
    /\ chainPc = "body"
    /\ status[2] = RUNNING
    /\ 1 \in endedInPass
    /\ runs[1] > 0

\* C20: a chain with status Completed has progress 100 (here for a run in
\* which nothing was cancelled)
C20_CompletedMeansFullProgress ==
    (chainStatus = COMPLETED /\ cancels = 0) => chainProgress = 100

\* the children whose last run in the current pass ended Failed, with
\* nothing cancelled: the children that failed for good
FailedForGood == {k \in endedInPass : status[k] = FAILED /\ cancels = 0}

\* C24: when a child whose kind maps to RetryTask has failed for good, the
\* chain ends Failed, as under StopChain, and no later child is started
C24_RetryTaskStopsChain ==
    chainPc = "done"
        => \A k \in FailedForGood :
              BehaviorOf(k) = RETRY_TASK
                  => /\ chainStatus = FAILED
                     /\ \A j \in Children : j > k => j \notin endedInPass

\* C25: chainRetryAttempts never exceeds the chain's maxRetries, and a chain
\* ends Failed over a child under RetryChain only when chainRetryAttempts has
\* reached maxRetries: every earlier failure re-runs the chain
C25_RetryChainUsesAllAttempts ==
    /\ chainRetryAttempts <= chainMaxRetries
    /\ (chainPc = "done" /\ chainStatus = FAILED)
          => \A k \in FailedForGood :
                BehaviorOf(k) = RETRY_CHAIN => chainRetryAttempts = chainMaxRetries

\* C26: in the first pass of a chain, a child that failed for good was run
\* exactly maxRetries + 1 times
C26_ChildRunsAllAttempts ==
    (chainPc = "done" /\ chainRetryAttempts = 0)
        => \A k \in FailedForGood : runs[k] = maxRetries[k] + 1

\* ------------------------------------------- claims, cancelled pending task
\* task t waits in pending with status Cancelled
CancelledPending(t) == t \in Range(pendingTasks) /\ status[t] = CANCELLED

\* C28: a task cancelled while pending is never moved to running nor handed
\* to a worker; the step that takes it from pending drops it from the
\* Tracker and releases its pending uniqueness count: afterwards the index
\* counts the pending tasks of its key, and holds the key only while a task
\* of that key is left in pending or running
C28_CancelledPendingDropped ==
    [][\A t \in Tasks :
          CancelledPending(t)
             => /\ t \notin runningTasks' /\ pc'[t] = "idle"
                /\ t \notin Range(pendingTasks')
                      => /\ t \notin activeTasks'
                         /\ uniqueType[t] # NONE
                               => LET k == uniqueVia(t) IN
                                  /\ StatsGet(activeUniqueKeys', k).pending
                                        = Cardinality(PendingWithKey(k)')
                                  /\ k \in DOMAIN activeUniqueKeys'
                                        <=> PendingWithKey(k)' \cup RunningWithKey(k)' # {}]_vars

\* ------------------------------------------------ claims, Tracker active set
\* the taskFinished event of task t is handled and no retry is scheduled
CompletionHandledWithoutRetry(t) ==
    /\ finishedEvents # <<>>
    /\ Head(finishedEvents).uuid = t
    /\ finishedEvents' = Tail(finishedEvents)
    /\ t \in runningTasks
    /\ t \notin retryTimers'

\* the cancelled task t is taken from pending, or its expired retry wait is
\* dropped
CancelledEntryDropped(t) ==
    \/ CancelledPending(t) /\ t \notin Range(pendingTasks')
    \/ t \in retryTimers \ retryTimers' /\ RetryDropped(t)

Called(op, uuid) == call' # call /\ call'.op = op /\ call'.uuid = uuid

C23_NotFoundChangesNothing ==
    [][\A uuid \in Tasks :
          \A op \in {"cancelTask", "pauseTask", "resumeTask", "getTaskInfo"} :
             (Called(op, uuid) /\ uuid \notin activeTasks)
                => /\ call'.raised = TaskNotFoundException
                   /\ UNCHANGED <<taskVars, pc, queueVars, activeTasks, envVars, histVars,
                                  tagVars, trackerHistoryVars>>]_vars

\* cancelTask left with TaskNotFoundException for the uuid of a task the
\* Tracker has dropped, while another task is tracked
C23_Witness ==
    /\ call.op = "cancelTask" /\ call.raised = TaskNotFoundException
    /\ call.uuid \notin activeTasks /\ call.uuid < nextTask
    /\ activeTasks # {}

\* ------------------------------------------------- claims, Tracker and tags
\* the tag index lists task t under no tag
Unindexed(t) == \A g \in DOMAIN tagIndex : t \notin tagIndex[g]

\* C21: stopTasksByTag(tag) with includeChainedChildren = false sets the stop
\* flag of every tracked task that carries the tag and not '_ChainedChild',
\* and leaves the stop flag of every task carrying '_ChainedChild' as it is
C21_StopByTagSparesChildren ==
    [][(/\ call'.op = "stopTasksByTag"
        /\ cancels' = cancels + 1
        /\ ~call'.includeChainedChildren)
          => \A t \in Tasks :
                /\ (t \in activeTasks /\ call'.tag \in tags[t] /\ ChainedChild \notin tags[t])
                      => stopped'[t]
                /\ ChainedChild \in tags[t] => stopped'[t] = stopped[t]]_vars

\* C29: the step in which Tracker.addTask registers a chain, none of its
\* children being tracked yet, leaves the chain
\* and each of its children in activeTasks, listed in the tag index under
\* every tag they carry, each child with its chain metadata; the step in
\* which removeTask drops a chain leaves neither the chain nor a child in
\* activeTasks, in the tag index or in the chain metadata
C29_ChainRegistration ==
    [][\A c \in Tasks :
          isTaskChain(c)
             => LET family == {c} \cup ChildrenOf(c) IN
                /\ (family \cap activeTasks = {} /\ c \in activeTasks')
                      => \A t \in family :
                            /\ t \in activeTasks'
                            /\ \A g \in tags[t] : t \in getUuidsByTag(g)'
                            /\ t # c => /\ t \in DOMAIN chainChildTasks'
                                        /\ chainChildTasks'[t] = c
                /\ (c \in activeTasks /\ c \notin activeTasks')
                      => \A t \in family :
                            /\ t \notin activeTasks'
                            /\ t \notin DOMAIN chainChildTasks'
                            /\ Unindexed(t)']_vars

\* C30: for every tag, getUuidsByTag returns exactly the tracked tasks that
\* carry the tag
C30_IndexMatchesTags ==
    \A g \in AllTags : getUuidsByTag(g) = {t \in activeTasks : g \in tags[t]}

\* C33: a list or dict stored with ChainContext.set(k, v) is isolated from
\* the client: whatever the client does afterwards to v, or to the object
\* get(k) returned, get(k) and serialize() keep returning the contents v had
\* when it was stored
C33_StoredValueIsolated ==
    /\ \A k \in DOMAIN contextValues : get(k) = valueAtSet[k]
    /\ serialize = valueAtSet

\* C34: a crash during Store.save(k, v) costs at most the key being saved:
\* after the restart, load of every other key that was persisted returns the
\* value it had before the save
C34_CrashKeepsOtherKeys ==
    \A key \in DOMAIN interrupted.before \ {interrupted.key} :
        load(key) = interrupted.before[key]

\* the statuses run() ends in
EndStatus == {COMPLETED, FAILED, CANCELLED}

\* C31: every run() emits taskFinished, after its last setStatus: a run that
\* is over has emitted, and the status at the emission is Completed, Failed
\* or Cancelled
C31_FinishedLastInEndStatus ==
    \A t \in activeTasks :
        /\ finishedEmitted[t] \in EndStatus \cup {"none"}
        /\ runs[t] > 0 /\ pc[t] = "idle" => finishedEmitted[t] # "none"

\* C35: however pauseTask and resumeTask interleave with run() on its pool
\* thread, a task whose run() is over does not have status Paused or Running
C35_FinishedNeverPausedOrRunning ==
    \A t \in activeTasks :
        finishedEmitted[t] # "none" => status[t] \notin {PAUSED, RUNNING}

\* C32: within one run() of a chain the progress the chain sets by its
\* default calculation never decreases, whichever children succeed, are
\* skipped, or make the chain start over
C32_DefaultProgressMonotonic == [][chainProgress' >= chainProgress]_vars

\* C39: every run of a chain terminates: it makes at most maxRetries + 1
\* passes over its list, runs a child at most the child's maxRetries + 1
\* times in a pass, and reaches the end of run()
C39_ChainRunTerminates ==
    /\ [](/\ chainRetryAttempts <= chainMaxRetries
          /\ \A k \in ChainTasks :
                 runs[k] <= (chainRetryAttempts + 1) * (maxRetries[k] + 1))
    /\ <>(chainPc = "done")

\* a chain that has made all its passes, its last child run in each of them
\* as often as allowed, is at the end of its run
C39_Witness ==
    /\ chainPc = "done"
    /\ chainMaxRetries > 0
    /\ chainRetryAttempts = chainMaxRetries
    /\ \E k \in ChainTasks :
           maxRetries[k] > 0 /\ runs[k] = (chainMaxRetries + 1) * (maxRetries[k] + 1)

\* C37: the Queue is work-conserving: between its handlers, no task waits
\* in pending while running holds fewer tasks than maxConcurrentTasks
C37_WorkConserving ==
    pendingTasks = <<>> \/ Cardinality(runningTasks) >= maxConcurrentTasks

\* tasks wait behind a full running set one task of which was dispatched
\* ahead of them
C37_Witness ==
    /\ pendingTasks # <<>>
    /\ Cardinality(runningTasks) = maxConcurrentTasks
    /\ \E t \in runningTasks : dispatchedAhead[t]

\* C38: under fair scheduling every admitted task eventually leaves the
\* Queue and the Tracker, for good, having been retried at most maxRetries
\* times
C38_AdmittedTaskLeaves ==
    /\ \A t \in 1..NumTasks :
           (t \in activeTasks) ~> (t \notin InQueue \cup retryTimers \cup activeTasks)
    /\ [](\A t \in Tasks : currentRetryAttempts[t] <= maxRetries[t])
    /\ [][\A t \in Tasks : t \in activeTasks' \ activeTasks => t = nextTask]_vars

\* one task has left the Queue and the Tracker while another is in the run
\* of its last retry
C38_Witness ==
    \E t, u \in 1..NumTasks :
        /\ t < nextTask
        /\ t \notin InQueue \cup retryTimers \cup activeTasks
        /\ u \in runningTasks
        /\ pc[u] = "handle"
        /\ maxRetries[u] > 0
        /\ currentRetryAttempts[u] = maxRetries[u]

\* the timers armed for the job of task u
ArmedFor(u) == {timer \in activeTimers : timerTask[timer] = u}

\* C40: after any sequence of addScheduledTask, timer firings and
\* removeScheduledTask, every armed timer is the timer of a listed job and
\* every listed job has exactly one armed timer, also when a task is
\* scheduled again under the jobId it already has
C40_TimersMatchJobs ==
    /\ \A timer \in activeTimers : Listed(timer)
    /\ \A u \in DOMAIN jobs : ArmedFor(u) = {jobs[u]}

\* the objects handed to the pool whose completion the Queue has not handled
InPool == {o \in DOMAIN objectPc : objectPc[o] \in {"start", "handle", "finished"}}

\* the uuids of the tasks in pending and in running, one entry per task
QueuedUuids == [i \in 1..Len(pendingObjects) |-> objectUuid[pendingObjects[i]]]

\* C36: the tasks in pending and running have pairwise distinct ids, and the
\* running map holds as many entries as tasks have been handed to the pool
\* and not had their completion handled, also when an interval job fires
\* again while the task of its previous firing is pending or running
C36_DistinctIdsInQueue ==
    /\ \A i, j \in DOMAIN QueuedUuids : i # j => QueuedUuids[i] # QueuedUuids[j]
    /\ \A i \in DOMAIN QueuedUuids : QueuedUuids[i] \notin DOMAIN runningDict
    /\ Cardinality(DOMAIN runningDict) = Cardinality(InPool)

====
